---- MODULE Spec2Model ----
(***************************************************************************)
(* Model of qetpy/core/_fitting.py: the single-template Optimum Filter     *)
(* (class OptimumFilter and the functions ofamp, ofamp_pileup,             *)
(* ofamp_pileup_stationary, chi2lowfreq, chi2_nopulse) and the shared      *)
(* delay search _argmin_chi2.                                              *)
(*                                                                         *)
(* Numbers.  The code computes in floating point; the model computes the   *)
(* same expressions exactly, in extended rationals <<n, d>> with d >= 0    *)
(* (d = 0, n # 0 is a signed infinity, <<0, 0>> is NaN).  Rounding is not  *)
(* modelled.  Complex numbers are records [re, im] of rationals.  The      *)
(* discrete Fourier transform is computed term by term with the roots of   *)
(* unity exp(-2 pi i j / nbins); these are exact when nbins divides 4      *)
(* (1, -i, -1, i), which is why the traces of the filter model have        *)
(* 4 samples.  The delay search itself is also checked on chi^2 arrays of  *)
(* every length, even and odd (SpecArgmin).                                *)
(*                                                                         *)
(* Arrays are functions on 0 .. nbins-1, so indices are the source's.      *)
(***************************************************************************)
EXTENDS Integers, Sequences, FiniteSets, TLC

VARIABLES
    signal,      \* the caller's current waveform array
    template,    \* the caller's template array
    inputpsd,    \* the caller's PSD array
    coupling,    \* the coupling string the filter was built with
    self,        \* the OptimumFilter instance (a record of its attributes), or
                 \* None; the OFnonlin instance in SpecNonlin
    pc,          \* "start": no instance yet; "idle": between method calls;
                 \* "returned": a call has just returned
    ret,         \* the last call: [op, args, raised, value, fresh, psd]
    search       \* a bare call of the delay search (SpecArgmin), or None

vars == <<signal, template, inputpsd, coupling, self, pc, ret, search>>

\* Python's None; an optional integer n is passed as Some(n) = <<n>>
None == <<>>

\* Let([x \in {e} |-> body]) is body with x standing for the value of e
Let(f) == f[CHOOSE x \in DOMAIN f : TRUE]
Some(n) == <<n>>

-----------------------------------------------------------------------------
(* Exact arithmetic standing for numpy's float arithmetic.                 *)

RECURSIVE Gcd(_, _)
Gcd(a, b) == IF b = 0 THEN a ELSE Gcd(b, a % b)

Abs(n) == IF n < 0 THEN -n ELSE n

Sign(n) == IF n < 0 THEN -1 ELSE IF n > 0 THEN 1 ELSE 0

\* the canonical form of the fraction n/d (d = 0 gives +-inf or NaN)
Reduced(n, d, g) == <<n \div g, d \div g>>

RNorm(n, d) ==
    IF d = 0 THEN <<Sign(n), 0>>
    ELSE Reduced(Sign(d) * n, Sign(d) * d, Gcd(Abs(n), Abs(d)))

R(n) == <<n, 1>>
Zero == <<0, 1>>
One == <<1, 1>>
Inf == <<1, 0>>
NaN == <<0, 0>>

RIsInf(a) == a[2] = 0 /\ a[1] # 0
RIsNaN(a) == a[2] = 0 /\ a[1] = 0
RIsFinite(a) == a[2] > 0

RNeg(a) == <<-a[1], a[2]>>
RAbs(a) == <<Abs(a[1]), a[2]>>
\* (fractions are reduced before the products are formed, to keep them small)
AddOver(a, b, g) ==
    RNorm(a[1] * (b[2] \div g) + b[1] * (a[2] \div g), (a[2] \div g) * b[2])

Times(x, y) == <<x[1] * y[1], x[2] * y[2]>>

RAdd(a, b) ==
    IF a[2] = 1 /\ b[2] = 1 THEN <<a[1] + b[1], 1>>
    ELSE IF a[2] = 0 /\ b[2] = 0
    THEN (IF a[1] = b[1] THEN a ELSE NaN)
    ELSE IF a[2] = 0 THEN a
    ELSE IF b[2] = 0 THEN b
    ELSE AddOver(a, b, Gcd(a[2], b[2]))
RSub(a, b) == RAdd(a, RNeg(b))
RMul(a, b) ==
    IF a[2] = 1 /\ b[2] = 1 THEN <<a[1] * b[1], 1>>
    ELSE IF a[2] = 0 \/ b[2] = 0 THEN <<Sign(a[1] * b[1]), 0>>
    ELSE Times(RNorm(a[1], b[2]), RNorm(b[1], a[2]))
RInv(b) == IF b[1] < 0 THEN <<-b[2], -b[1]>> ELSE <<b[2], b[1]>>
RDiv(a, b) ==
    IF b[2] = 0 THEN (IF a[2] = 0 THEN NaN ELSE Zero)
    ELSE IF b[1] = 0 THEN <<Sign(a[1]), 0>>
    ELSE RMul(a, RInv(b))
RSq(a) == RMul(a, a)
\* comparisons are false when an operand is NaN, as in IEEE arithmetic
RLt(a, b) ==
    /\ ~RIsNaN(a) /\ ~RIsNaN(b)
    /\ IF a[2] = 0 /\ b[2] = 0 THEN a[1] < b[1]
       ELSE IF a[2] = 0 THEN a[1] < 0
       ELSE IF b[2] = 0 THEN b[1] > 0
       ELSE a[1] * b[2] < b[1] * a[2]
RGt(a, b) == RLt(b, a)
RLe(a, b) == ~RIsNaN(a) /\ ~RIsNaN(b) /\ ~RLt(b, a)
RGe(a, b) == RLe(b, a)

\* int(x): truncation toward zero of a finite rational
RInt(a) == Sign(a[1]) * (Abs(a[1]) \div a[2])

C(re, im) == [re |-> re, im |-> im]
CZero == C(Zero, Zero)
CReal(a) == C(a, Zero)
CAdd(x, y) == C(RAdd(x.re, y.re), RAdd(x.im, y.im))
CSub(x, y) == C(RSub(x.re, y.re), RSub(x.im, y.im))
CMul(x, y) == C(RSub(RMul(x.re, y.re), RMul(x.im, y.im)),
                RAdd(RMul(x.re, y.im), RMul(x.im, y.re)))
CConj(x) == C(x.re, RNeg(x.im))
CScale(x, a) == C(RMul(x.re, a), RMul(x.im, a))
CDivR(x, a) == C(RDiv(x.re, a), RDiv(x.im, a))
CAbs2(x) == RAdd(RSq(x.re), RSq(x.im))

\* sum of f[i] over the indices of a sequence of indices
RECURSIVE RSumOver(_, _)
RSumOver(f, inds) ==
    IF inds = <<>> THEN Zero ELSE RAdd(f[Head(inds)], RSumOver(f, Tail(inds)))

RECURSIVE CSumOver(_, _)
CSumOver(f, inds) ==
    IF inds = <<>> THEN CZero ELSE CAdd(f[Head(inds)], CSumOver(f, Tail(inds)))

\* an array as the table of its values, so that each element is computed once
Tab(f) == f @@ <<>>

\* np.arange(lo, hi) as a sequence (empty when hi <= lo)
arange(lo, hi) == Tab([i \in 1 .. (IF hi > lo THEN hi - lo ELSE 0) |-> lo + i - 1])

NBinsOf(a) == Cardinality(DOMAIN a)
AllInds(a) == arange(0, NBinsOf(a))
RSum(a) == RSumOver(a, AllInds(a))
CSum(a) == CSumOver(a, AllInds(a))

\* a 0-based array from a tuple
Arr(t) == Tab([i \in 0 .. Len(t) - 1 |-> t[i + 1]])

\* np.roll(a, shift)
roll(a, shift) ==
    LET n == NBinsOf(a) IN Tab([i \in DOMAIN a |-> a[(i - shift) % n]])

\* exp(-2 pi i j / n) for n dividing 4, as a number of quarter turns:
\* the root is (-i)^Turns(n, j)
Turns(n, j) == ((4 \div n) * j) % 4

Root(n, j) ==
    LET q == Turns(n, j)
    IN  CASE q = 0 -> C(One, Zero)
          [] q = 1 -> C(Zero, R(-1))
          [] q = 2 -> C(R(-1), Zero)
          [] q = 3 -> C(Zero, One)

\* x * (-i)^q, which is CMul(x, Root(4, q))
CTurn(x, q) ==
    CASE q = 0 -> x
      [] q = 1 -> C(x.im, RNeg(x.re))
      [] q = 2 -> C(RNeg(x.re), RNeg(x.im))
      [] q = 3 -> C(RNeg(x.im), x.re)

\* numpy.fft.fft of a complex array
fft(x) ==
    LET n == NBinsOf(x)
    IN  Tab([k \in DOMAIN x |->
            CSum(Tab([m \in DOMAIN x |-> CTurn(x[m], Turns(n, k * m))]))])

\* numpy.fft.ifft of a complex array
ifft(X) ==
    LET n == NBinsOf(X)
    IN  Tab([m \in DOMAIN X |->
            CDivR(CSum(Tab([k \in DOMAIN X |-> CTurn(X[k], Turns(n, -(k * m)))])), R(n))])

\* numpy.fft.fftfreq(n, d = 1/fs): the frequency of bin k
fftfreq(n, fs) ==
    Tab([k \in 0 .. n - 1 |->
        IF k < (n + 1) \div 2 THEN RDiv(RMul(R(k), fs), R(n))
        ELSE RDiv(RMul(R(k - n), fs), R(n))])

-----------------------------------------------------------------------------
(* The shared delay search.                                                *)

\* a call's outcome: the value returned, or the exception raised
Return(v) == [raised |-> "none", value |-> v]
Raise(e) == [raised |-> e, value |-> None]

\* (np.nan mistaken for the first bin: an empty candidate set then goes unnoticed)
nan_as_first_bin == R(0)

\* np.nan; an index is carried as the rational R(i), nan as the rational NaN
nan == NaN
Idx(bestind) == bestind[1]

\* (the position of the last candidate, whatever its chi^2)
nplast(chi2, inds) == Len(inds) - 1

\* np.argmin of the values chi2[inds[1]], chi2[inds[2]], ...: the 0-based
\* position of the first minimum (of the first NaN when there is one)
RECURSIVE argminFrom(_, _, _, _)
argminFrom(chi2, inds, best, p) ==
    IF p > Len(inds) THEN best - 1
    ELSE IF RIsNaN(chi2[inds[best]]) THEN best - 1
    ELSE IF RIsNaN(chi2[inds[p]]) \/ RLt(chi2[inds[p]], chi2[inds[best]])
         THEN argminFrom(chi2, inds, p, p + 1)
         ELSE argminFrom(chi2, inds, best, p + 1)

npargmin(chi2, inds) == argminFrom(chi2, inds, 1, 2)

\* np.flatnonzero(mask)
flatnonzero(mask) == SelectSeq(AllInds(mask), LAMBDA i : mask[i])

\* inds[inds<0] += nbins
Wrapped(r, nbins) == Tab([p \in DOMAIN r |-> IF r[p] < 0 THEN r[p] + nbins ELSE r[p]])

\* np.r_[0:a, b:0] followed by inds[inds<0] += nbins
OutsideInds(nbins, nconstrain) ==
    Wrapped(arange(0, (nbins \div 2) - (nconstrain \div 2))
            \o arange(((-nbins) \div 2) + (nconstrain \div 2) + (nconstrain % 2), 0),
            nbins)

\* (a window that drops the extra bin of an odd length)
InsideIndsEven(nbins, nconstrain) ==
    arange((nbins \div 2) - (nconstrain \div 2), (nbins \div 2) + (nconstrain \div 2))

\* np.arange(nbins//2 - nconstrain//2, nbins//2 + nconstrain//2 + nconstrain%2)
InsideInds(nbins, nconstrain) ==
    arange((nbins \div 2) - (nconstrain \div 2),
           (nbins \div 2) + (nconstrain \div 2) + (nconstrain % 2))

\* (a clamp that stops one bin short of the whole trace)
ClampWindowShort(nconstrain, nbins) == IF nconstrain > nbins THEN nbins - 1 ELSE nconstrain

\* (a validation that lets the zero-length window through)
InvalidWindowNegativeOnly(nconstrain, nbins) == nconstrain < 0

\* if nconstrain>nbins: nconstrain = nbins
ClampWindow(nconstrain, nbins) == IF nconstrain > nbins THEN nbins ELSE nconstrain

\* elif nconstrain <= 0: raise ValueError
InvalidWindow(nconstrain, nbins) == ~(nconstrain > nbins) /\ nconstrain <= 0

\* inds = np.r_[...] or np.arange(...), by lgcoutsidewindow
WindowInds(nbins, nconstrain, lgcoutsidewindow) ==
    IF lgcoutsidewindow THEN OutsideInds(nbins, nconstrain)
                        ELSE InsideInds(nbins, nconstrain)

\* (a search that forgets the mask inside a window)
Unmasked(inds, constraint_mask) == inds

\* inds = inds[constraint_mask[inds]]
Masked(inds, constraint_mask) ==
    IF constraint_mask # None
    THEN SelectSeq(inds, LAMBDA i : constraint_mask[i])
    ELSE inds

\* if len(inds)!=0: bestind = inds[np.argmin(chi2[inds])] else: bestind = np.nan
BestOf(chi2, inds) ==
    IF Len(inds) # 0
    THEN Return(R(inds[npargmin(chi2, inds) + 1]))
    ELSE Return(nan)

_argmin_chi2(chi2, nconstrain, lgcoutsidewindow, constraint_mask) ==
    IF nconstrain # None
    THEN IF InvalidWindow(nconstrain[1], NBinsOf(chi2))
         THEN Raise("ValueError")
         ELSE BestOf(chi2, Masked(WindowInds(NBinsOf(chi2),
                                             ClampWindow(nconstrain[1], NBinsOf(chi2)),
                                             lgcoutsidewindow),
                                  constraint_mask))
    ELSE IF constraint_mask = None
         THEN Return(R(npargmin(chi2, AllInds(chi2))))
         ELSE BestOf(chi2, flatnonzero(constraint_mask))

\* (a mask that takes every unknown code for "no constraint")
_get_pulse_direction_constraint_mask_lenient(amps, pulse_direction_constraint) ==
    IF pulse_direction_constraint = 1
    THEN Return(Tab([i \in DOMAIN amps |-> RGt(amps[i], Zero)]))
    ELSE IF pulse_direction_constraint = -1
         THEN Return(Tab([i \in DOMAIN amps |-> RLt(amps[i], Zero)]))
    ELSE Return(None)

\* (a mask that lets a zero amplitude through)
_get_pulse_direction_constraint_mask_nonstrict(amps, pulse_direction_constraint) ==
    IF pulse_direction_constraint = 0 THEN Return(None)
    ELSE IF pulse_direction_constraint = 1
         THEN Return(Tab([i \in DOMAIN amps |-> RGe(amps[i], Zero)]))
    ELSE IF pulse_direction_constraint = -1
         THEN Return(Tab([i \in DOMAIN amps |-> RLe(amps[i], Zero)]))
    ELSE Raise("ValueError")

_get_pulse_direction_constraint_mask(amps, pulse_direction_constraint) ==
    IF pulse_direction_constraint = 0 THEN Return(None)
    ELSE IF pulse_direction_constraint = 1
         THEN Return(Tab([i \in DOMAIN amps |-> RGt(amps[i], Zero)]))
    ELSE IF pulse_direction_constraint = -1
         THEN Return(Tab([i \in DOMAIN amps |-> RLt(amps[i], Zero)]))
    ELSE Raise("ValueError")

-----------------------------------------------------------------------------
(* class OptimumFilter.  A method is an operator from the instance (and    *)
(* the arguments) to [self |-> the instance afterwards, ret |-> outcome].  *)

CDiv(x, y) == CDivR(CMul(x, CConj(y)), CAbs2(y))
Re(x) == x.re
Cplx(a) == Tab([i \in DOMAIN a |-> CReal(a[i])])
\* np.dot(a, b) of two complex arrays
dot(a, b) == CSum(Tab([k \in DOMAIN a |-> CMul(a[k], b[k])]))
\* exp(-2j pi x) for a rational x with 4x whole (x a number of quarter turns)
expm2jpi(x) == Root(4, RInt(RMul(R(4), x)))

\* (psd = inputpsd: the working array is the caller's array)
CopyPsdAlias(inputpsd_) == [psd |-> inputpsd_, fresh |-> FALSE]

\* psd = np.zeros(len(inputpsd)); psd[:] = inputpsd.  The new array holds the
\* input's values and is fresh: it shares no storage with the caller's array.
CopyPsd(inputpsd_) == [psd |-> inputpsd_, fresh |-> TRUE]

\* if coupling == 'AC': psd[0] = np.inf
ACCoupled(psd, coupling_) ==
    Tab([k \in DOMAIN psd |-> IF coupling_ = "AC" /\ k = 0 THEN Inf ELSE psd[k]])

\* the caller's array once the function has written psd: the writes reach it
\* only if psd is not a fresh array
CallerAfter(inputpsd_, cp, psd) == IF cp.fresh THEN inputpsd_ ELSE psd

\* fft(x)/nbins/df
Scaled(X, nbins, df) == Tab([k \in DOMAIN X |-> CDivR(CDivR(X[k], R(nbins)), df)])

Spectrum(x, nbins, df) == Scaled(fft(Cplx(x)), nbins, df)

\* np.real(np.dot(self.v.conjugate()/self.psd, self.v)*self.df)
NoPulseChi2(v, psd, df) ==
    RMul(Re(dot(Tab([k \in DOMAIN v |-> CDivR(CConj(v[k]), psd[k])]), v)), df)

OptimumFilter_init(signal_, template_, psd_, fs, coupling_, integralnorm) ==
    Let([cp \in {CopyPsd(psd_)} |->
    Let([psd \in {ACCoupled(cp.psd, coupling_)} |->
    Let([nbins \in {NBinsOf(signal_)} |->
    Let([df \in {RDiv(fs, R(nbins))} |->
    Let([s0 \in {Spectrum(template_, nbins, df)} |->
    Let([s \in {IF integralnorm THEN Tab([k \in DOMAIN s0 |-> CDiv(s0[k], s0[0])]) ELSE s0} |->
    Let([phi \in {Tab([k \in DOMAIN s |-> CDivR(CConj(s[k]), psd[k])])} |->
    Let([norm \in {RMul(Re(dot(phi, s)), df)} |->
    Let([v \in {Spectrum(signal_, nbins, df)} |->
    [caller |-> CallerAfter(psd_, cp, psd),
     self   |-> [psd |-> psd, psd0 |-> cp.psd[0], nbins |-> nbins, fs |-> fs,
                 df |-> df, s |-> s, phi |-> phi, norm |-> norm, v |-> v,
                 signalfilt |-> Tab([k \in DOMAIN v |-> CDivR(CMul(phi[k], v[k]), norm)]),
                 chi0 |-> None, chit_withdelay |-> None, amps_withdelay |-> None,
                 chi_withdelay |-> None, signalfilt_td |-> None,
                 templatefilt_td |-> None, times |-> None, freqs |-> None]]])])])])])])])])])

\* (an update that forgets to reset chi0)
update_signal_keeping_chi0(self_, signal_) ==
    Let([v \in {Spectrum(signal_, self_.nbins, self_.df)} |->
    [self |-> [self_ EXCEPT
                 !.v = v,
                 !.signalfilt = Tab([k \in DOMAIN v |->
                                    CDivR(CMul(self_.phi[k], v[k]), self_.norm)]),
                 !.chit_withdelay = None, !.signalfilt_td = None,
                 !.amps_withdelay = None, !.chi_withdelay = None],
     ret  |-> Return(None)]])

update_signal(self_, signal_) ==
    Let([v \in {Spectrum(signal_, self_.nbins, self_.df)} |->
    [self |-> [self_ EXCEPT
                 !.v = v,
                 !.signalfilt = Tab([k \in DOMAIN v |->
                                    CDivR(CMul(self_.phi[k], v[k]), self_.norm)]),
                 !.chi0 = None, !.chit_withdelay = None, !.signalfilt_td = None,
                 !.amps_withdelay = None, !.chi_withdelay = None],
     ret  |-> Return(None)]])

\* if self.chi0 is None: self.chi0 = ...
WithChi0(self_) ==
    IF self_.chi0 = None
    THEN [self_ EXCEPT !.chi0 = NoPulseChi2(self_.v, self_.psd, self_.df)]
    ELSE self_

\* np.real(x)*df
RealTimes(x, df) == Tab([i \in DOMAIN x |-> RMul(Re(x[i]), df)])

\* if self.signalfilt_td is None: self.signalfilt_td = ...
WithSignalfiltTd(self_) ==
    IF self_.signalfilt_td = None
    THEN [self_ EXCEPT !.signalfilt_td =
             RealTimes(ifft(Tab([k \in DOMAIN self_.signalfilt |->
                                CScale(self_.signalfilt[k], R(self_.nbins))])),
                       self_.df)]
    ELSE self_

\* if self.freqs is None: self.freqs = fftfreq(self.nbins, d=1.0/self.fs)
WithFreqs(self_) ==
    IF self_.freqs = None
    THEN [self_ EXCEPT !.freqs = fftfreq(self_.nbins, self_.fs)]
    ELSE self_

\* if self.times is None: self.times = np.arange(-(nbins//2), nbins//2+nbins%2)/fs
TimesArray(nbins, fs) ==
    LET a == arange(-(nbins \div 2), (nbins \div 2) + (nbins % 2))
    IN  Tab([i \in 0 .. Len(a) - 1 |-> RDiv(R(a[i + 1]), fs)])

WithTimes(self_) ==
    IF self_.times = None
    THEN [self_ EXCEPT !.times = TimesArray(self_.nbins, self_.fs)]
    ELSE self_

OptimumFilter_chi2_nopulse(self_) ==
    Let([s1 \in {WithChi0(self_)} |->
    [self |-> s1, ret |-> Return(s1.chi0)]])

chi2_lowfreq(self_, amp, t0, fcutoff) ==
    Let([s1 \in {WithFreqs(self_)} |->
    Let([chi2tot \in {Tab([k \in DOMAIN s1.v |->
                         RDiv(RMul(s1.df,
                                   CAbs2(CSub(s1.v[k],
                                              CMul(CScale(expm2jpi(RMul(t0, s1.freqs[k])), amp),
                                                   s1.s[k])))),
                              s1.psd[k])])} |->
    Let([chi2inds \in {SelectSeq(AllInds(s1.v),
                                 LAMBDA k : RLe(RAbs(s1.freqs[k]), fcutoff))} |->
    [self |-> s1, ret |-> Return(RSumOver(chi2tot, chi2inds))]])])])

ofamp_nodelay(self_) ==
    Let([amp \in {RMul(Re(CSum(self_.signalfilt)), self_.df)} |->
    Let([s1 \in {WithChi0(self_)} |->
    Let([chit \in {RMul(RSq(amp), s1.norm)} |->
    Let([chi2 \in {RSub(s1.chi0, chit)} |->
    [self |-> s1, ret |-> Return(<<amp, chi2>>)]])])])])

\* (a delay counted from the first bin, not from the centre of the trace)
DelayOfUncentred(bestind, nbins, fs) == RDiv(bestind, fs)

\* t0 = (bestind-self.nbins//2)/self.fs
DelayOf(bestind, nbins, fs) == RDiv(RSub(bestind, R(nbins \div 2)), fs)

(* A delay-search method is written in two parts: the part that computes   *)
(* the arrays to search (it reads no window or polarity argument) and the  *)
(* part that searches them.  The method is the second applied to the       *)
(* first.                                                                  *)

\* lines 398-415: the caches ofamp_withdelay fills
ofamp_withdelay_arrays(self_) ==
    Let([s1 \in {WithSignalfiltTd(self_)} |->
    Let([s2 \in {WithChi0(s1)} |->
    Let([s3 \in {IF s2.chit_withdelay = None
                 THEN [s2 EXCEPT !.chit_withdelay =
                          Tab([i \in DOMAIN s2.signalfilt_td |->
                              RMul(RSq(s2.signalfilt_td[i]), s2.norm)])]
                 ELSE s2} |->
    Let([s4 \in {IF s3.chi_withdelay = None
                 THEN [s3 EXCEPT !.chi_withdelay =
                          roll(Tab([i \in DOMAIN s3.chit_withdelay |->
                                   RSub(s3.chi0, s3.chit_withdelay[i])]),
                               s3.nbins \div 2)]
                 ELSE s3} |->
    IF s4.amps_withdelay = None
    THEN [s4 EXCEPT !.amps_withdelay = roll(s4.signalfilt_td, s4.nbins \div 2)]
    ELSE s4])])])])

\* lines 417-434
ofamp_withdelay_search(s5, nconstrain, lgcoutsidewindow, pulse_direction_constraint) ==
    Let([constraint_mask \in {_get_pulse_direction_constraint_mask(
                                 s5.amps_withdelay, pulse_direction_constraint)} |->
    IF constraint_mask.raised # "none"
    THEN [self |-> s5, ret |-> Raise(constraint_mask.raised)]
    ELSE
    Let([bestind \in {_argmin_chi2(s5.chi_withdelay, nconstrain, lgcoutsidewindow,
                                   constraint_mask.value)} |->
    IF bestind.raised # "none"
    THEN [self |-> s5, ret |-> Raise(bestind.raised)]
    ELSE IF RIsNaN(bestind.value)
    THEN [self |-> s5, ret |-> Return(<<Zero, Zero, s5.chi0>>)]
    ELSE [self |-> s5,
          ret  |-> Return(<<s5.amps_withdelay[Idx(bestind.value)],
                            DelayOf(bestind.value, s5.nbins, s5.fs),
                            s5.chi_withdelay[Idx(bestind.value)]>>)]])])

ofamp_withdelay(self_, nconstrain, lgcoutsidewindow, pulse_direction_constraint) ==
    ofamp_withdelay_search(ofamp_withdelay_arrays(self_), nconstrain, lgcoutsidewindow,
                           pulse_direction_constraint)

\* a[i] for a Python index i that may be negative; TRUE when it raises IndexError
IndexError(a, i) == i >= NBinsOf(a) \/ i < -NBinsOf(a)
PyGet(a, i) == IF i < 0 THEN a[i + NBinsOf(a)] ELSE a[i]

\* int(t1*fs+nbins) if t1<0 else int(t1*fs)
T1Ind(t1, fs, nbins) ==
    IF RLt(t1, Zero) THEN RInt(RAdd(RMul(t1, fs), R(nbins))) ELSE RInt(RMul(t1, fs))

\* lines 476-508
ofamp_pileup_iterative_arrays(self_, a1, t1) ==
    Let([s1 \in {WithFreqs(self_)} |->
    Let([s2 \in {WithSignalfiltTd(s1)} |->
    Let([x \in {ifft(Tab([k \in DOMAIN s2.phi |->
                        CScale(CMul(CMul(expm2jpi(RMul(s2.freqs[k], t1)), s2.phi[k]), s2.s[k]),
                               R(s2.nbins))]))} |->
    Let([templatefilt_td \in {Tab([i \in DOMAIN x |-> RMul(Re(x[i]), s2.df)])} |->
    Let([s3 \in {WithTimes(s2)} |->
    Let([s4 \in {WithChi0(s3)} |->
    Let([a2s \in {Tab([i \in DOMAIN templatefilt_td |->
                      RSub(s4.signalfilt_td[i],
                           RDiv(RMul(a1, templatefilt_td[i]), s4.norm))])} |->
    Let([t1ind \in {T1Ind(t1, s4.fs, s4.nbins)} |->
    \* self.signalfilt_td[t1ind]
    IF IndexError(s4.signalfilt_td, t1ind)
    THEN [self |-> s4, raised |-> "IndexError"]
    ELSE
    Let([chit \in {RSub(RMul(RSq(a1), s4.norm),
                        RMul(RMul(RMul(R(2), a1), PyGet(s4.signalfilt_td, t1ind)), s4.norm))} |->
    Let([chil \in {Tab([i \in DOMAIN a2s |->
                      RSub(RAdd(RMul(RSq(a2s[i]), s4.norm),
                                RMul(RMul(RMul(R(2), a1), a2s[i]), templatefilt_td[i])),
                           RMul(RMul(RMul(R(2), a2s[i]), s4.signalfilt_td[i]), s4.norm))])} |->
    Let([chi \in {Tab([i \in DOMAIN chil |-> RAdd(RAdd(s4.chi0, chit), chil[i])])} |->
    [self |-> s4, raised |-> "none", chit |-> chit,
     a2s |-> roll(a2s, s4.nbins \div 2), chi |-> roll(chi, s4.nbins \div 2)]])])])])])])])])])])])

\* lines 510-527
\* (a fallback that forgets the first pulse)
NoSecondPulseChi0(chi0, chit) == chi0

\* chi2 = self.chi0 + chit
NoSecondPulseChi2(chi0, chit) == RAdd(chi0, chit)

ofamp_pileup_iterative_search(f, nconstrain, lgcoutsidewindow, pulse_direction_constraint) ==
    IF f.raised # "none"
    THEN [self |-> f.self, ret |-> Raise(f.raised)]
    ELSE
    Let([constraint_mask \in {_get_pulse_direction_constraint_mask(
                                 f.a2s, pulse_direction_constraint)} |->
    IF constraint_mask.raised # "none"
    THEN [self |-> f.self, ret |-> Raise(constraint_mask.raised)]
    ELSE
    Let([bestind \in {_argmin_chi2(f.chi, nconstrain, lgcoutsidewindow,
                                   constraint_mask.value)} |->
    IF bestind.raised # "none"
    THEN [self |-> f.self, ret |-> Raise(bestind.raised)]
    ELSE IF RIsNaN(bestind.value)
    THEN [self |-> f.self, ret |-> Return(<<Zero, Zero, NoSecondPulseChi2(f.self.chi0, f.chit)>>)]
    ELSE [self |-> f.self,
          ret  |-> Return(<<f.a2s[Idx(bestind.value)], f.self.times[Idx(bestind.value)],
                            f.chi[Idx(bestind.value)]>>)]])])

ofamp_pileup_iterative(self_, a1, t1, nconstrain, lgcoutsidewindow, pulse_direction_constraint) ==
    ofamp_pileup_iterative_search(ofamp_pileup_iterative_arrays(self_, a1, t1),
                                  nconstrain, lgcoutsidewindow, pulse_direction_constraint)

\* lines 561-598
OptimumFilter_ofamp_pileup_stationary_arrays(self_) ==
    Let([s1 \in {WithSignalfiltTd(self_)} |->
    Let([x \in {ifft(Tab([k \in DOMAIN s1.phi |->
                        CScale(CMul(s1.phi[k], s1.s[k]), R(s1.nbins))]))} |->
    Let([templatefilt_td \in {Tab([i \in DOMAIN x |-> RMul(Re(x[i]), s1.df)])} |->
    Let([s2 \in {WithTimes(s1)} |->
    Let([sf \in {s2.signalfilt_td} |->
    Let([norm \in {s2.norm} |->
    Let([denom \in {Tab([i \in DOMAIN sf |-> RSub(RSq(norm), RSq(templatefilt_td[i]))])} |->
    Let([a1s \in {Tab([i \in DOMAIN sf |->
                     IF i = 0 THEN RDiv(sf[0], RMul(R(2), norm))
                     ELSE RDiv(RSub(RMul(sf[0], RSq(norm)),
                                    RMul(RMul(sf[i], norm), templatefilt_td[i])),
                               denom[i])])} |->
    Let([a2s \in {Tab([i \in DOMAIN sf |->
                     IF i = 0 THEN RDiv(sf[0], RMul(R(2), norm))
                     ELSE RDiv(RSub(RMul(sf[i], RSq(norm)),
                                    RMul(RMul(sf[0], norm), templatefilt_td[i])),
                               denom[i])])} |->
    Let([s3 \in {WithChi0(s2)} |->
    Let([chit \in {Tab([i \in DOMAIN sf |->
                      RAdd(RMul(RAdd(RSq(a1s[i]), RSq(a2s[i])), norm),
                           RMul(RMul(RMul(R(2), a1s[i]), a2s[i]), templatefilt_td[i]))])} |->
    Let([chil \in {Tab([i \in DOMAIN sf |->
                      RAdd(RMul(RMul(RMul(R(2), a1s[i]), sf[0]), norm),
                           RMul(RMul(RMul(R(2), a2s[i]), sf[i]), norm))])} |->
    Let([chi \in {Tab([i \in DOMAIN sf |-> RSub(RAdd(s3.chi0, chit[i]), chil[i])])} |->
    [self |-> s3, a1s |-> roll(a1s, s3.nbins \div 2),
     a2s |-> roll(a2s, s3.nbins \div 2), chi |-> roll(chi, s3.nbins \div 2)]])])])])])])])])])])])])])

\* lines 600-609
OptimumFilter_ofamp_pileup_stationary_search(f, nconstrain, lgcoutsidewindow) ==
    Let([bestind \in {_argmin_chi2(f.chi, nconstrain, lgcoutsidewindow, None)} |->
    IF bestind.raised # "none"
    THEN [self |-> f.self, ret |-> Raise(bestind.raised)]
    ELSE IF RIsNaN(bestind.value)
    \* a1s[np.nan]: a float is not a valid index
    THEN [self |-> f.self, ret |-> Raise("IndexError")]
    ELSE [self |-> f.self,
          ret  |-> Return(<<f.a1s[Idx(bestind.value)], f.a2s[Idx(bestind.value)],
                            f.self.times[Idx(bestind.value)],
                            f.chi[Idx(bestind.value)]>>)]])

OptimumFilter_ofamp_pileup_stationary(self_, nconstrain, lgcoutsidewindow) ==
    OptimumFilter_ofamp_pileup_stationary_search(
        OptimumFilter_ofamp_pileup_stationary_arrays(self_), nconstrain, lgcoutsidewindow)

\* np.argmin over a whole array
argminAll(a) == npargmin(a, AllInds(a))

\* (a fallback chi^2 that leaves the fitted baseline out)
BaselineChi0Unshifted(base0, bs, c1, c2) == base0

\* chi0 with the baseline fixed to bs: chi0 -= 2*bs*c1; chi0 += bs**2 * c2
BaselineChi0(base0, bs, c1, c2) ==
    RAdd(RSub(base0, RMul(RMul(R(2), bs), c1)), RMul(RSq(bs), c2))

\* lines 648-695
ofamp_baseline_arrays(self_) ==
    Let([d \in {RDiv(One, self_.df)} |->
    Let([isac \in {RIsInf(self_.psd[0])} |->
    Let([phi \in {IF isac
                  THEN Tab([k \in DOMAIN self_.phi |->
                           IF k = 0 THEN CDivR(self_.s[0], self_.psd0) ELSE self_.phi[k]])
                  ELSE self_.phi} |->
    Let([norm \in {IF isac THEN RMul(Re(dot(phi, self_.s)), self_.df) ELSE self_.norm} |->
    Let([x \in {ifft(Tab([k \in DOMAIN phi |-> CMul(phi[k], self_.v[k])]))} |->
    Let([b1 \in {Tab([i \in DOMAIN x |-> RMul(RMul(Re(x[i]), R(self_.nbins)), self_.df)])} |->
    Let([b2 \in {RMul(Re(CScale(phi[0], d)), self_.df)} |->
    Let([c1 \in {RMul(Re(CDivR(CScale(self_.v[0], d), self_.psd0)), self_.df)} |->
    Let([c2 \in {RMul(RDiv(RSq(RAbs(d)), self_.psd0), self_.df)} |->
    Let([amps \in {Tab([i \in DOMAIN b1 |->
                      RDiv(RSub(RMul(b1[i], c2), RMul(b2, c1)),
                           RSub(RMul(norm, c2), RSq(b2)))])} |->
    Let([baselines \in {Tab([i \in DOMAIN b1 |-> RDiv(RSub(c1, RMul(amps[i], b2)), c2)])} |->
    Let([sumv \in {RMul(RSum(Tab([k \in DOMAIN self_.v |->
                                     RDiv(CAbs2(self_.v[k]), self_.psd[k])])),
                        self_.df)} |->
    Let([base0 \in {IF isac
                    THEN RAdd(sumv, RMul(RDiv(CAbs2(self_.v[0]), self_.psd0), self_.df))
                    ELSE sumv} |->
    Let([chi2a \in {Tab([i \in DOMAIN b1 |->
                       RAdd(RAdd(RAdd(RAdd(base0,
                           RMul(R(-2), RAdd(RMul(amps[i], b1[i]), RMul(baselines[i], c1)))),
                           RMul(RSq(amps[i]), norm)),
                           RMul(RMul(RMul(R(2), amps[i]), baselines[i]), b2)),
                           RMul(RSq(baselines[i]), c2))])} |->
    Let([bs \in {baselines[argminAll(chi2a)]} |->
    Let([amps_out \in {Tab([i \in DOMAIN b1 |-> RDiv(RSub(b1[i], RMul(bs, b2)), norm)])} |->
    Let([chi0 \in {BaselineChi0(base0, bs, c1, c2)} |->
    Let([chi2b \in {Tab([i \in DOMAIN b1 |->
                       RAdd(RAdd(RSub(chi0, RMul(RMul(R(2), amps_out[i]), b1[i])),
                                 RMul(RSq(amps_out[i]), norm)),
                            RMul(RMul(RMul(R(2), amps_out[i]), bs), b2))])} |->
    [self |-> self_, bs |-> bs, chi0 |-> chi0,
     amps_out |-> roll(amps_out, self_.nbins \div 2),
     chi2 |-> roll(chi2b, self_.nbins \div 2)]])])])])])])])])])])])])])])])])])])

\* lines 697-713
ofamp_baseline_search(f, nconstrain, lgcoutsidewindow, pulse_direction_constraint) ==
    Let([constraint_mask \in {_get_pulse_direction_constraint_mask(
                                 f.amps_out, pulse_direction_constraint)} |->
    IF constraint_mask.raised # "none"
    THEN [self |-> f.self, ret |-> Raise(constraint_mask.raised)]
    ELSE
    Let([bestind \in {_argmin_chi2(f.chi2, nconstrain, lgcoutsidewindow,
                                   constraint_mask.value)} |->
    IF bestind.raised # "none"
    THEN [self |-> f.self, ret |-> Raise(bestind.raised)]
    ELSE IF RIsNaN(bestind.value)
    THEN [self |-> f.self, ret |-> Return(<<Zero, Zero, f.chi0>>)]
    ELSE [self |-> f.self,
          ret  |-> Return(<<f.amps_out[Idx(bestind.value)],
                            DelayOf(bestind.value, f.self.nbins, f.self.fs),
                            f.chi2[Idx(bestind.value)]>>)]])])

ofamp_baseline(self_, nconstrain, lgcoutsidewindow, pulse_direction_constraint) ==
    ofamp_baseline_search(ofamp_baseline_arrays(self_), nconstrain, lgcoutsidewindow,
                          pulse_direction_constraint)

-----------------------------------------------------------------------------
(* The module-level functions.  Each gives [caller |-> the caller's PSD    *)
(* array after the call, psd |-> the function's working PSD, ret |->       *)
(* outcome].  ofamp is modelled for one trace and lgcsigma = False (sigma  *)
(* is a square root).  The delay searches are again written in two parts.  *)

\* what a function hands back: the caller's array, its working PSD, the outcome
Outcome(f, r) == [caller |-> f.caller, psd |-> f.psd, ret |-> r]

\* lines 772-800, 809-821, 832-841
ofamp_arrays(signal_, template_, inputpsd_, fs, coupling_, integralnorm) ==
    Let([cp \in {CopyPsd(inputpsd_)} |->
    Let([nbins \in {NBinsOf(signal_)} |->
    Let([df \in {RDiv(fs, R(nbins))} |->
    Let([v \in {Spectrum(signal_, nbins, df)} |->
    Let([s0 \in {Spectrum(template_, nbins, df)} |->
    Let([s \in {IF integralnorm THEN Tab([k \in DOMAIN s0 |-> CDiv(s0[k], s0[0])]) ELSE s0} |->
    Let([psd \in {ACCoupled(cp.psd, coupling_)} |->
    Let([phi \in {Tab([k \in DOMAIN s |-> CDivR(CConj(s[k]), psd[k])])} |->
    Let([norm \in {RMul(Re(dot(phi, s)), df)} |->
    Let([signalfilt \in {Tab([k \in DOMAIN v |-> CDivR(CMul(phi[k], v[k]), norm)])} |->
    Let([x \in {ifft(Tab([k \in DOMAIN v |-> CScale(signalfilt[k], R(nbins))]))} |->
    Let([amps \in {Tab([i \in DOMAIN x |-> RMul(Re(x[i]), df)])} |->
    Let([chi0 \in {NoPulseChi2(v, psd, df)} |->
    Let([chi \in {Tab([i \in DOMAIN x |-> RSub(chi0, RMul(RSq(amps[i]), norm))])} |->
    Let([amp0 \in {RMul(Re(CSum(signalfilt)), df)} |->
    IF NBinsOf(cp.psd) # NBinsOf(v)
    \* the PSD is copied before the length check and not written before it
    THEN [raised |-> "ValueError", caller |-> CallerAfter(inputpsd_, cp, cp.psd),
          psd |-> cp.psd]
    ELSE [raised |-> "none", caller |-> CallerAfter(inputpsd_, cp, psd), psd |-> psd,
          nbins |-> nbins, fs |-> fs, amps |-> roll(amps, nbins \div 2),
          chi |-> roll(chi, nbins \div 2),
          amp |-> amp0, chi2 |-> RSub(chi0, RMul(RSq(amp0), norm))]])])])])])])])])])])])])])])])

\* lines 806, 823-851
ofamp_search(f, withdelay, nconstrain, lgcoutsidewindow) ==
    IF f.raised # "none" THEN Outcome(f, Raise(f.raised))
    ELSE IF ~withdelay THEN Outcome(f, Return(<<f.amp, Zero, f.chi2>>))
    ELSE
    Let([bestind \in {_argmin_chi2(f.chi, nconstrain, lgcoutsidewindow, None)} |->
    IF bestind.raised # "none" THEN Outcome(f, Raise(bestind.raised))
    \* amps[:, np.nan]: a float is not a valid index
    ELSE IF RIsNaN(bestind.value) THEN Outcome(f, Raise("IndexError"))
    ELSE Outcome(f, Return(<<f.amps[Idx(bestind.value)],
                             DelayOf(bestind.value, f.nbins, f.fs),
                             f.chi[Idx(bestind.value)]>>))])

ofamp(signal_, template_, inputpsd_, fs, withdelay, coupling_, nconstrain, lgcoutsidewindow, integralnorm) ==
    ofamp_search(ofamp_arrays(signal_, template_, inputpsd_, fs, coupling_, integralnorm),
                 withdelay, nconstrain, lgcoutsidewindow)

\* lines 913-970
ofamp_pileup_arrays(signal_, template_, inputpsd_, fs, a1_, t1_, coupling_, nconstrain1) ==
    Let([cp \in {CopyPsd(inputpsd_)} |->
    Let([nbins \in {NBinsOf(signal_)} |->
    Let([df \in {RDiv(fs, R(nbins))} |->
    Let([freqs \in {fftfreq(nbins, fs)} |->
    Let([need \in {a1_ = None \/ t1_ = None} |->
    \* ofamp is handed this function's copy, with the defaults
    \* lgcoutsidewindow=False, integralnorm=False
    Let([first \in {IF need
                    THEN ofamp(signal_, template_, cp.psd, fs, TRUE, coupling_,
                               nconstrain1, FALSE, FALSE)
                    ELSE None} |->
    IF need /\ first.ret.raised # "none"
    THEN [raised |-> first.ret.raised,
          caller |-> CallerAfter(inputpsd_, cp, first.caller), psd |-> first.caller]
    ELSE
    Let([a1 \in {IF need THEN first.ret.value[1] ELSE a1_} |->
    Let([t1 \in {IF need THEN first.ret.value[2] ELSE t1_} |->
    Let([psd1 \in {IF need THEN first.caller ELSE cp.psd} |->
    Let([v \in {Spectrum(signal_, nbins, df)} |->
    Let([s \in {Spectrum(template_, nbins, df)} |->
    IF NBinsOf(psd1) # NBinsOf(v)
    THEN [raised |-> "ValueError", caller |-> CallerAfter(inputpsd_, cp, psd1),
          psd |-> psd1]
    ELSE
    Let([psd \in {ACCoupled(psd1, coupling_)} |->
    Let([after \in {CallerAfter(inputpsd_, cp, psd)} |->
    Let([phi \in {Tab([k \in DOMAIN s |-> CDivR(CConj(s[k]), psd[k])])} |->
    Let([norm \in {RMul(Re(dot(phi, s)), df)} |->
    Let([signalfilt \in {Tab([k \in DOMAIN v |-> CDivR(CMul(phi[k], v[k]), norm)])} |->
    Let([x \in {ifft(Tab([k \in DOMAIN v |-> CScale(signalfilt[k], R(nbins))]))} |->
    Let([signalfilt_td \in {Tab([i \in DOMAIN x |-> RMul(Re(x[i]), df)])} |->
    Let([y \in {ifft(Tab([k \in DOMAIN phi |->
                        CScale(CMul(CMul(expm2jpi(RMul(freqs[k], t1)), phi[k]), s[k]),
                               R(nbins))]))} |->
    Let([templatefilt_td \in {Tab([i \in DOMAIN y |-> RMul(Re(y[i]), df)])} |->
    Let([a2s \in {Tab([i \in DOMAIN x |->
                     RSub(signalfilt_td[i], RDiv(RMul(a1, templatefilt_td[i]), norm))])} |->
    Let([chi0 \in {RMul(Re(dot(Tab([k \in DOMAIN v |-> CDivR(CConj(v[k]), psd[k])]), v)),
                        df)} |->
    Let([chit \in {Tab([i \in DOMAIN x |->
                      RAdd(RMul(RAdd(RSq(a1), RSq(a2s[i])), norm),
                           RMul(RMul(RMul(R(2), a1), a2s[i]), templatefilt_td[i]))])} |->
    Let([t1ind \in {T1Ind(t1, fs, nbins)} |->
    \* signalfilt_td[t1ind]
    IF IndexError(signalfilt_td, t1ind)
    THEN [raised |-> "IndexError", caller |-> after, psd |-> psd]
    ELSE
    Let([chil \in {Tab([i \in DOMAIN x |->
                      RAdd(RMul(RMul(RMul(R(2), a1), PyGet(signalfilt_td, t1ind)), norm),
                           RMul(RMul(RMul(R(2), a2s[i]), signalfilt_td[i]), norm))])} |->
    Let([chi \in {Tab([i \in DOMAIN x |-> RSub(RAdd(chi0, chit[i]), chil[i])])} |->
    [raised |-> "none", caller |-> after, psd |-> psd, a1 |-> a1, t1 |-> t1,
     times |-> TimesArray(nbins, fs), a2s |-> roll(a2s, nbins \div 2),
     chi |-> roll(chi, nbins \div 2)]])])])])])])])])])])])])])])])])])])])])])])])])])])

\* lines 972-980
ofamp_pileup_search(f, nconstrain2, lgcoutsidewindow) ==
    IF f.raised # "none" THEN Outcome(f, Raise(f.raised))
    ELSE
    Let([bestind \in {_argmin_chi2(f.chi, nconstrain2, lgcoutsidewindow, None)} |->
    IF bestind.raised # "none" THEN Outcome(f, Raise(bestind.raised))
    \* a2s[np.nan]
    ELSE IF RIsNaN(bestind.value) THEN Outcome(f, Raise("IndexError"))
    ELSE Outcome(f, Return(<<f.a1, f.t1, f.a2s[Idx(bestind.value)],
                             f.times[Idx(bestind.value)], f.chi[Idx(bestind.value)]>>))])

ofamp_pileup(signal_, template_, inputpsd_, fs, a1_, t1_, coupling_, nconstrain1, nconstrain2, lgcoutsidewindow) ==
    ofamp_pileup_search(ofamp_pileup_arrays(signal_, template_, inputpsd_, fs, a1_, t1_,
                                            coupling_, nconstrain1),
                        nconstrain2, lgcoutsidewindow)

\* lines 1025-1082
ofamp_pileup_stationary_arrays(signal_, template_, inputpsd_, fs, coupling_) ==
    Let([cp \in {CopyPsd(inputpsd_)} |->
    Let([nbins \in {NBinsOf(signal_)} |->
    Let([df \in {RDiv(fs, R(nbins))} |->
    Let([v \in {Spectrum(signal_, nbins, df)} |->
    Let([s \in {Spectrum(template_, nbins, df)} |->
    Let([psd \in {ACCoupled(cp.psd, coupling_)} |->
    Let([phi \in {Tab([k \in DOMAIN s |-> CDivR(CConj(s[k]), psd[k])])} |->
    Let([norm \in {RMul(Re(dot(phi, s)), df)} |->
    Let([signalfilt \in {Tab([k \in DOMAIN v |-> CDivR(CMul(phi[k], v[k]), norm)])} |->
    Let([x \in {ifft(Tab([k \in DOMAIN v |-> CScale(signalfilt[k], R(nbins))]))} |->
    Let([sf \in {Tab([i \in DOMAIN x |-> RMul(RMul(Re(x[i]), df), norm)])} |->
    Let([y \in {ifft(Tab([k \in DOMAIN phi |-> CScale(CMul(phi[k], s[k]), R(nbins))]))} |->
    Let([templatefilt_td \in {Tab([i \in DOMAIN y |-> RMul(Re(y[i]), df)])} |->
    Let([denom \in {Tab([i \in DOMAIN sf |-> RSub(RSq(norm), RSq(templatefilt_td[i]))])} |->
    Let([a1s \in {Tab([i \in DOMAIN sf |->
                     IF i = 0 THEN RDiv(sf[0], RMul(R(2), RSq(norm)))
                     ELSE RDiv(RSub(RMul(sf[0], norm), RMul(sf[i], templatefilt_td[i])),
                               denom[i])])} |->
    Let([a2s \in {Tab([i \in DOMAIN sf |->
                     IF i = 0 THEN RDiv(sf[0], RMul(R(2), RSq(norm)))
                     ELSE RDiv(RSub(RMul(sf[i], norm), RMul(sf[0], templatefilt_td[i])),
                               denom[i])])} |->
    Let([chi0 \in {RMul(Re(dot(Tab([k \in DOMAIN v |-> CDivR(CConj(v[k]), psd[k])]), v)), df)} |->
    Let([chit \in {Tab([i \in DOMAIN sf |->
                      RAdd(RMul(RAdd(RSq(a1s[i]), RSq(a2s[i])), norm),
                           RMul(RMul(RMul(R(2), a1s[i]), a2s[i]), templatefilt_td[i]))])} |->
    Let([chil \in {Tab([i \in DOMAIN sf |->
                      RAdd(RMul(RMul(R(2), a1s[i]), sf[0]),
                           RMul(RMul(R(2), a2s[i]), sf[i]))])} |->
    Let([chi \in {Tab([i \in DOMAIN sf |-> RSub(RAdd(chi0, chit[i]), chil[i])])} |->
    IF NBinsOf(cp.psd) # NBinsOf(v)
    THEN [raised |-> "ValueError", caller |-> CallerAfter(inputpsd_, cp, cp.psd),
          psd |-> cp.psd]
    ELSE [raised |-> "none", caller |-> CallerAfter(inputpsd_, cp, psd), psd |-> psd,
          times |-> TimesArray(nbins, fs), a1s |-> roll(a1s, nbins \div 2),
          a2s |-> roll(a2s, nbins \div 2), chi |-> roll(chi, nbins \div 2)]])])])])])])])])])])])])])])])])])])])])

\* lines 1084-1093
ofamp_pileup_stationary_search(f, nconstrain, lgcoutsidewindow) ==
    IF f.raised # "none" THEN Outcome(f, Raise(f.raised))
    ELSE
    Let([bestind \in {_argmin_chi2(f.chi, nconstrain, lgcoutsidewindow, None)} |->
    IF bestind.raised # "none" THEN Outcome(f, Raise(bestind.raised))
    \* a1s[np.nan]
    ELSE IF RIsNaN(bestind.value) THEN Outcome(f, Raise("IndexError"))
    ELSE Outcome(f, Return(<<f.a1s[Idx(bestind.value)], f.a2s[Idx(bestind.value)],
                             f.times[Idx(bestind.value)], f.chi[Idx(bestind.value)]>>))])

ofamp_pileup_stationary(signal_, template_, inputpsd_, fs, coupling_, nconstrain, lgcoutsidewindow) ==
    ofamp_pileup_stationary_search(
        ofamp_pileup_stationary_arrays(signal_, template_, inputpsd_, fs, coupling_),
        nconstrain, lgcoutsidewindow)

chi2lowfreq(signal_, template_, amp, t0, inputpsd_, fs, fcutoff, coupling_) ==
    Let([cp \in {CopyPsd(inputpsd_)} |->
    Let([psd \in {ACCoupled(cp.psd, coupling_)} |->
    Let([nbins \in {NBinsOf(signal_)} |->
    Let([df \in {RDiv(fs, R(nbins))} |->
    Let([v \in {Spectrum(signal_, nbins, df)} |->
    Let([s \in {Spectrum(template_, nbins, df)} |->
    Let([f \in {fftfreq(nbins, fs)} |->
    Let([chi2tot \in {Tab([k \in DOMAIN v |->
                         RDiv(RMul(df,
                                   CAbs2(CSub(v[k],
                                              CMul(CScale(expm2jpi(RMul(t0, f[k])), amp), s[k])))),
                              psd[k])])} |->
    Let([chi2inds \in {SelectSeq(AllInds(v), LAMBDA k : RLe(RAbs(f[k]), fcutoff))} |->
    [caller |-> CallerAfter(inputpsd_, cp, psd), psd |-> psd,
     ret |-> Return(RSumOver(chi2tot, chi2inds))]])])])])])])])])])

chi2_nopulse(signal_, inputpsd_, fs, coupling_) ==
    Let([cp \in {CopyPsd(inputpsd_)} |->
    Let([nbins \in {NBinsOf(signal_)} |->
    Let([df \in {RDiv(fs, R(nbins))} |->
    Let([v \in {Spectrum(signal_, nbins, df)} |->
    Let([psd \in {ACCoupled(cp.psd, coupling_)} |->
    [caller |-> CallerAfter(inputpsd_, cp, psd), psd |-> psd,
     ret |-> Return(RMul(df, RSum(Tab([k \in DOMAIN v |-> RDiv(CAbs2(v[k]), psd[k])]))))]])])])])])

-----------------------------------------------------------------------------
(* The inputs.  Traces have 4 samples (see the header).  A template must   *)
(* have power in a bin the PSD weights, or norm = 0 and the filter divides *)
(* by zero at construction; every template below has.                      *)

Fs == R(2)

RArr(t) == Tab([i \in 0 .. Len(t) - 1 |-> R(t[i + 1])])

\* a one-sample pulse and a two-sample pulse.  Without its mean (AC coupling)
\* the two-sample pulse is a pure oscillation of period 4: shifted by two bins
\* it is its own negative
Templates == {RArr(<<0, 0, 1, 0>>), RArr(<<0, 0, 1, 1>>)}

Psds == {RArr(<<1, 1, 1, 1>>), RArr(<<2, 1, 2, 1>>)}

Couplings == {"AC", "DC"}

\* a trace that no shift of either template fits
Mismatch == RArr(<<0, 1, 0, 2>>)

\* the signals handed to a filter of the template t: t shifted circularly by
\* k bins, for every k (the zero-noise signals), and the trace it does not fit
Signals(t) == {roll(t, k) : k \in 0 .. 3} \cup {Mismatch}

\* the window lengths asked for, from the invalid length 0 to one past nbins
\* (which exercises the clamp)
MaxConstrain == 5

NConstrainArgs == {None} \cup {Some(n) : n \in 0 .. MaxConstrain}

\* 2 stands for every invalid polarity code
PolarityArgs == {-1, 0, 1, 2}

\* first-pulse fits handed to the pile-up searches: amplitude 1 at a time
\* before the trigger, at the trigger, and past the end of the trace
A1Args == {Zero, One}
T1Args == {RDiv(R(k), Fs) : k \in {-1, 0, 4}}

\* the first-pulse arguments of ofamp_pileup: (a1, t1) given, or left to ofamp
\* with the window nconstrain1 (none, invalid, or two bins)
FirstPulseArgs ==
    {<<a1, t1, None>> : a1 \in A1Args, t1 \in T1Args}
        \cup {<<None, None, nc1>> : nc1 \in {None, Some(0), Some(2)}}

AmpArgs == {One}
T0Args == {Zero, RDiv(One, Fs)}
CutoffArgs == {Zero, Fs}

NoCall == [op |-> "none", args |-> None, raised |-> "none", value |-> None,
           fresh |-> None, psd |-> None, locals |-> None]

\* the record of a method call: its outcome, the outcome of the same call on a
\* newly constructed filter, and the local variables of the call that the
\* properties speak of
MethodCall(op, args, out, fresh, locals) ==
    [op |-> op, args |-> args, raised |-> out.raised, value |-> out.value,
     fresh |-> fresh, psd |-> None, locals |-> locals]

\* the record of a function call: its outcome and its working PSD
FunctionCall(op, args, r) ==
    [op |-> op, args |-> args, raised |-> r.ret.raised, value |-> r.ret.value,
     fresh |-> None, psd |-> r.psd, locals |-> None]

\* OptimumFilter(signal, template, inputpsd, fs, coupling) built now
Fresh == OptimumFilter_init(signal, template, inputpsd, Fs, coupling, FALSE).self

Init ==
    /\ template \in Templates
    /\ signal \in Signals(template)
    /\ inputpsd \in Psds
    /\ coupling \in Couplings
    /\ self = None
    /\ pc = "start"
    /\ ret = NoCall
    /\ search = None

(* In the actions a value is bound by \E x \in {e}: the value e is         *)
(* computed once and x stands for it.                                      *)

\* of = OptimumFilter(signal, template, inputpsd, fs, coupling)
Construct ==
    /\ pc = "start"
    /\ \E c \in {OptimumFilter_init(signal, template, inputpsd, Fs, coupling, FALSE)} :
          /\ self' = c.self
          /\ inputpsd' = c.caller
          /\ ret' = [NoCall EXCEPT !.op = "OptimumFilter", !.psd = c.self.psd]
    /\ pc' = "returned"
    /\ UNCHANGED <<signal, template, coupling, search>>

\* a method call: the instance is updated and the outcome recorded
Method(op, args, result, onfresh, locals) ==
    \E r \in {result}, fresh \in {onfresh} :
       /\ self' = r.self
       /\ ret' = MethodCall(op, args, r.ret, fresh.ret, locals)
       /\ pc' = "returned"
       /\ UNCHANGED <<template, inputpsd, coupling, search>>

CallUpdateSignal ==
    /\ pc = "idle"
    /\ \E x \in Signals(template) :
          /\ signal' = x
          /\ Method("update_signal", [signal |-> x], update_signal(self, x),
                    \* (update_signal returns None on every instance)
                    [ret |-> Return(None)], None)

CallChi2Nopulse ==
    /\ pc = "idle"
    /\ Method("chi2_nopulse", None, OptimumFilter_chi2_nopulse(self),
              OptimumFilter_chi2_nopulse(Fresh), None)
    /\ UNCHANGED signal

CallChi2Lowfreq ==
    /\ pc = "idle"
    /\ \E fresh \in {Fresh} :
          \E amp \in AmpArgs, t0 \in T0Args, fcutoff \in CutoffArgs :
             Method("chi2_lowfreq", [amp |-> amp, t0 |-> t0, fcutoff |-> fcutoff],
                    chi2_lowfreq(self, amp, t0, fcutoff),
                    chi2_lowfreq(fresh, amp, t0, fcutoff), None)
    /\ UNCHANGED signal

CallOfampNodelay ==
    /\ pc = "idle"
    /\ Method("ofamp_nodelay", None, ofamp_nodelay(self), ofamp_nodelay(Fresh), None)
    /\ UNCHANGED signal

CallOfampWithdelay ==
    /\ pc = "idle"
    /\ \E f \in {ofamp_withdelay_arrays(self)}, g \in {ofamp_withdelay_arrays(Fresh)} :
          \E nc \in NConstrainArgs, out \in BOOLEAN, pdc \in PolarityArgs :
             Method("ofamp_withdelay",
                    [nconstrain |-> nc, lgcoutsidewindow |-> out,
                     pulse_direction_constraint |-> pdc],
                    ofamp_withdelay_search(f, nc, out, pdc),
                    ofamp_withdelay_search(g, nc, out, pdc), None)
    /\ UNCHANGED signal

CallOfampPileupIterative ==
    /\ pc = "idle"
    /\ \E fresh \in {Fresh}, a1 \in A1Args, t1 \in T1Args :
          \E f \in {ofamp_pileup_iterative_arrays(self, a1, t1)},
             g \in {ofamp_pileup_iterative_arrays(fresh, a1, t1)} :
             \E nc \in NConstrainArgs, out \in BOOLEAN, pdc \in PolarityArgs :
                Method("ofamp_pileup_iterative",
                       [a1 |-> a1, t1 |-> t1, nconstrain |-> nc,
                        lgcoutsidewindow |-> out, pulse_direction_constraint |-> pdc],
                       ofamp_pileup_iterative_search(f, nc, out, pdc),
                       ofamp_pileup_iterative_search(g, nc, out, pdc),
                       IF f.raised = "none" THEN [a2s |-> f.a2s, chit |-> f.chit]
                                            ELSE None)
    /\ UNCHANGED signal

CallOfampPileupStationary ==
    /\ pc = "idle"
    /\ \E f \in {OptimumFilter_ofamp_pileup_stationary_arrays(self)},
          g \in {OptimumFilter_ofamp_pileup_stationary_arrays(Fresh)} :
          \E nc \in NConstrainArgs, out \in BOOLEAN :
             Method("ofamp_pileup_stationary",
                    [nconstrain |-> nc, lgcoutsidewindow |-> out],
                    OptimumFilter_ofamp_pileup_stationary_search(f, nc, out),
                    OptimumFilter_ofamp_pileup_stationary_search(g, nc, out), None)
    /\ UNCHANGED signal

CallOfampBaseline ==
    /\ pc = "idle"
    /\ \E f \in {ofamp_baseline_arrays(self)}, g \in {ofamp_baseline_arrays(Fresh)} :
          \E nc \in NConstrainArgs, out \in BOOLEAN, pdc \in PolarityArgs :
             Method("ofamp_baseline",
                    [nconstrain |-> nc, lgcoutsidewindow |-> out,
                     pulse_direction_constraint |-> pdc],
                    ofamp_baseline_search(f, nc, out, pdc),
                    ofamp_baseline_search(g, nc, out, pdc),
                    [bs |-> f.bs, amps_out |-> f.amps_out])
    /\ UNCHANGED signal

\* a call of a module-level function on the caller's arrays: the caller's PSD
\* is whatever the function left in it
Function(op, args, result) ==
    \E r \in {result} :
       /\ inputpsd' = r.caller
       /\ ret' = FunctionCall(op, args, r)
       /\ pc' = "returned"
       /\ UNCHANGED <<signal, template, coupling, self, search>>

CallOfamp ==
    /\ pc = "start"
    /\ \E integralnorm \in BOOLEAN :
          \E f \in {ofamp_arrays(signal, template, inputpsd, Fs, coupling, integralnorm)} :
             \E withdelay \in BOOLEAN, nc \in NConstrainArgs, out \in BOOLEAN :
                Function("ofamp",
                         [withdelay |-> withdelay, nconstrain |-> nc,
                          lgcoutsidewindow |-> out, integralnorm |-> integralnorm],
                         ofamp_search(f, withdelay, nc, out))

CallOfampPileup ==
    /\ pc = "start"
    /\ \E p \in FirstPulseArgs :
          \E f \in {ofamp_pileup_arrays(signal, template, inputpsd, Fs, p[1], p[2],
                                        coupling, p[3])} :
             \E nc2 \in NConstrainArgs, out \in BOOLEAN :
                Function("ofamp_pileup",
                         [a1 |-> p[1], t1 |-> p[2], nconstrain1 |-> p[3],
                          nconstrain2 |-> nc2, lgcoutsidewindow |-> out],
                         ofamp_pileup_search(f, nc2, out))

CallOfampPileupStationaryFunction ==
    /\ pc = "start"
    /\ \E f \in {ofamp_pileup_stationary_arrays(signal, template, inputpsd, Fs,
                                                coupling)} :
          \E nc \in NConstrainArgs, out \in BOOLEAN :
             Function("ofamp_pileup_stationary_function",
                      [nconstrain |-> nc, lgcoutsidewindow |-> out],
                      ofamp_pileup_stationary_search(f, nc, out))

CallChi2lowfreqFunction ==
    /\ pc = "start"
    /\ \E amp \in AmpArgs, t0 \in T0Args, fcutoff \in CutoffArgs :
          Function("chi2lowfreq", [amp |-> amp, t0 |-> t0, fcutoff |-> fcutoff],
                   chi2lowfreq(signal, template, amp, t0, inputpsd, Fs, fcutoff, coupling))

CallChi2NopulseFunction ==
    /\ pc = "start"
    /\ Function("chi2_nopulse_function", None,
                chi2_nopulse(signal, inputpsd, Fs, coupling))

\* the caller takes the result and goes on: with the instance once there is
\* one, with the bare arrays before
Returned ==
    /\ pc = "returned"
    /\ pc' = (IF self = None THEN "start" ELSE "idle")
    /\ ret' = NoCall
    /\ UNCHANGED <<signal, template, inputpsd, coupling, self, search>>

Next ==
    \/ Construct
    \/ CallUpdateSignal
    \/ CallChi2Nopulse
    \/ CallChi2Lowfreq
    \/ CallOfampNodelay
    \/ CallOfampWithdelay
    \/ CallOfampPileupIterative
    \/ CallOfampPileupStationary
    \/ CallOfampBaseline
    \/ CallOfamp
    \/ CallOfampPileup
    \/ CallOfampPileupStationaryFunction
    \/ CallChi2lowfreqFunction
    \/ CallChi2NopulseFunction
    \/ Returned

Spec == Init /\ [][Next]_vars

-----------------------------------------------------------------------------
(* The delay search on its own: _argmin_chi2 applied to chi^2 arrays of    *)
(* every length up to MaxBins, with every mask and every window.           *)

MaxBins == 4

Chi2Values == {Zero, One, R(2)}

Chi2Arrays == UNION {[0 .. n - 1 -> Chi2Values] : n \in 1 .. MaxBins}

MaskArgs(n) == {None} \cup [0 .. n - 1 -> BOOLEAN]

\* from an invalid negative length to two past the longest array
WindowArgs == {None} \cup {Some(n) : n \in -1 .. MaxBins + 2}

\* the array inds of a call as the window branch leaves it (None when the
\* call has no window or the window is refused)
WindowOf(chi2, nconstrain, lgcoutsidewindow) ==
    IF nconstrain = None \/ InvalidWindow(nconstrain[1], NBinsOf(chi2))
    THEN None
    ELSE WindowInds(NBinsOf(chi2), ClampWindow(nconstrain[1], NBinsOf(chi2)),
                    lgcoutsidewindow)

InitArgmin ==
    /\ search \in {[chi2 |-> a, call |-> None] : a \in Chi2Arrays}
    /\ signal = None
    /\ template = None
    /\ inputpsd = None
    /\ coupling = None
    /\ self = None
    /\ pc = "search"
    /\ ret = NoCall

CallArgminChi2 ==
    /\ pc = "search"
    /\ search.call = None
    /\ \E nc \in WindowArgs, out \in BOOLEAN, mask \in MaskArgs(NBinsOf(search.chi2)) :
          \E r \in {_argmin_chi2(search.chi2, nc, out, mask)} :
             search' = [search EXCEPT !.call =
                           [nconstrain |-> nc, lgcoutsidewindow |-> out,
                            constraint_mask |-> mask, raised |-> r.raised,
                            value |-> r.value,
                            inds |-> WindowOf(search.chi2, nc, out)]]
    /\ UNCHANGED <<signal, template, inputpsd, coupling, self, pc, ret>>

ArgminReturned ==
    /\ pc = "search"
    /\ search.call # None
    /\ search' = [search EXCEPT !.call = None]
    /\ UNCHANGED <<signal, template, inputpsd, coupling, self, pc, ret>>

NextArgmin ==
    \/ CallArgminChi2
    \/ ArgminReturned

SpecArgmin == InitArgmin /\ [][NextArgmin]_vars

-----------------------------------------------------------------------------
(* The properties.  They speak of the call that has just returned (ret),   *)
(* of the instance it left (self) and of the caller's arrays.              *)

ReturnedFrom(op) == pc = "returned" /\ ret.op = op

\* a window argument that passes validation / that is supplied and is <= 0
WindowGiven(nconstrain) == nconstrain = None \/ nconstrain[1] >= 1
NonPositive(nconstrain) == nconstrain # None /\ nconstrain[1] <= 0

PolarityCodes == {0, 1, -1}

\* the bins of the centred window of length nconstrain (at most nbins), or of
\* its complement
WindowBins(nbins, nconstrain, lgcoutsidewindow) ==
    IF nconstrain = None THEN 0 .. nbins - 1
    ELSE LET w == IF nconstrain[1] > nbins THEN nbins ELSE nconstrain[1]
             inside == {i \in 0 .. nbins - 1 :
                           /\ (nbins \div 2) - (w \div 2) <= i
                           /\ i < (nbins \div 2) + (w \div 2) + (w % 2)}
         IN  IF lgcoutsidewindow THEN (0 .. nbins - 1) \ inside ELSE inside

PolarityOk(amp, code) ==
    \/ code = 0
    \/ code = 1 /\ RGt(amp, Zero)
    \/ code = -1 /\ RLt(amp, Zero)

\* the bins that satisfy both the window and the polarity constraint
Candidates(amps, nconstrain, lgcoutsidewindow, code) ==
    {i \in WindowBins(NBinsOf(amps), nconstrain, lgcoutsidewindow) :
        PolarityOk(amps[i], code)}

\* the first-pulse time t1 indexes a sample of the trace
T1InTrace(t1) ==
    LET n == NBinsOf(signal)
        i == T1Ind(t1, Fs, n)
    IN  -n <= i /\ i < n

\* the no-pulse chi^2 of the caller's current signal: df * sum(|v|^2 / psd)
NoPulseOfSignal == chi2_nopulse(signal, inputpsd, Fs, coupling).ret.value

FiveCaches ==
    <<self.chi0, self.signalfilt_td, self.chit_withdelay, self.amps_withdelay,
      self.chi_withdelay>>

\* C1: every method call returns exactly what the same call returns on a
\* filter newly constructed from the caller's current signal, whatever calls
\* and updates came before; and update_signal leaves the five caches (chi0,
\* signalfilt_td, chit_withdelay, amps_withdelay, chi_withdelay) empty.
C1_UpdateSignalRefreshes ==
    pc = "returned" =>
        /\ ret.fresh # None =>
              (ret.raised = ret.fresh.raised /\ ret.value = ret.fresh.value)
        /\ ret.op = "update_signal" => FiveCaches = <<None, None, None, None, None>>

\* a no-delay fit returned after an update_signal that followed a pile-up
\* search: times is set (only the pile-up searches set it, together with
\* signalfilt_td) and signalfilt_td has been emptied since
C1_Witness ==
    /\ ReturnedFrom("ofamp_nodelay")
    /\ self.times # None
    /\ self.signalfilt_td = None
    /\ ret.raised = "none"
    /\ ret.value = ret.fresh.value

\* C2: when no bin satisfies both the window and the polarity constraint,
\* ofamp_withdelay (nconstrain None or >= 1, polarity in {-1, 0, 1}) raises
\* nothing and returns amp = 0, t0 = 0, chi2 = the no-pulse chi^2 of the
\* current signal.
C2_WithdelayEmptyFallback ==
    (/\ ReturnedFrom("ofamp_withdelay")
     /\ WindowGiven(ret.args.nconstrain)
     /\ ret.args.pulse_direction_constraint \in PolarityCodes
     /\ Candidates(self.amps_withdelay, ret.args.nconstrain, ret.args.lgcoutsidewindow,
                   ret.args.pulse_direction_constraint) = {})
        => (ret.raised = "none" /\ ret.value = <<Zero, Zero, NoPulseOfSignal>>)

\* the fallback taken because the polarity constraint (not the window alone)
\* leaves no bin, on a signal with a non-zero no-pulse chi^2
C2_Witness ==
    /\ ReturnedFrom("ofamp_withdelay")
    /\ ret.args.nconstrain = Some(2)
    /\ ~ret.args.lgcoutsidewindow
    /\ ret.args.pulse_direction_constraint = -1
    /\ Candidates(self.amps_withdelay, ret.args.nconstrain, FALSE, -1) = {}
    /\ ret.raised = "none"
    /\ ret.value[1] = Zero /\ ret.value[2] = Zero /\ RGt(ret.value[3], Zero)

\* the calls of C3: a search outside a window of at least nbins bins, the
\* other arguments valid
EmptiedByWindow ==
    LET n == NBinsOf(signal)
        whole(nconstrain) == nconstrain # None /\ nconstrain[1] >= n
    IN  \/ /\ ret.op \in {"ofamp_pileup_stationary", "ofamp_pileup_stationary_function"}
           /\ ret.args.lgcoutsidewindow
           /\ whole(ret.args.nconstrain)
        \/ /\ ret.op = "ofamp"
           /\ ret.args.withdelay
           /\ ret.args.lgcoutsidewindow
           /\ whole(ret.args.nconstrain)
        \/ /\ ret.op = "ofamp_pileup"
           /\ ret.args.lgcoutsidewindow
           /\ whole(ret.args.nconstrain2)
           /\ IF ret.args.a1 = None THEN WindowGiven(ret.args.nconstrain1)
                                    ELSE T1InTrace(ret.args.t1)

\* C3: OptimumFilter.ofamp_pileup_stationary and the functions ofamp
\* (withdelay=True), ofamp_pileup and ofamp_pileup_stationary, called with
\* lgcoutsidewindow=True and nconstrain >= nbins (no candidate bin), raise
\* nothing.
C3_EmptyWindowRecovers ==
    (pc = "returned" /\ EmptiedByWindow) => ret.raised = "none"

\* the chi^2 of the fit with no pulse and the baseline fixed to bs, against
\* the input PSD with its zero-frequency bin:
\* df * sum(|v - bs*d*[k = 0]|^2 / inputpsd)
FixedBaselineChi2(bs) ==
    LET n  == NBinsOf(signal)
        df == RDiv(Fs, R(n))
        d  == RDiv(One, df)
        v  == Spectrum(signal, n, df)
        w  == Tab([k \in DOMAIN v |->
                  IF k = 0 THEN CSub(v[0], CReal(RMul(bs, d))) ELSE v[k]])
    IN  RMul(df, RSum(Tab([k \in DOMAIN w |-> RDiv(CAbs2(w[k]), inputpsd[k])])))

BaselineEmptied ==
    /\ ReturnedFrom("ofamp_baseline")
    /\ WindowGiven(ret.args.nconstrain)
    /\ ret.args.pulse_direction_constraint \in PolarityCodes
    /\ Candidates(ret.locals.amps_out, ret.args.nconstrain, ret.args.lgcoutsidewindow,
                  ret.args.pulse_direction_constraint) = {}

\* C4 (as amended): when the window and polarity arguments of ofamp_baseline
\* leave no candidate bin, it raises nothing and returns amp = 0, t0 = 0 and
\* the chi^2 of the no-pulse fit with the baseline held at the unconstrained
\* best-fit baseline bs, the zero-frequency bin weighted by the input PSD.
C4_BaselineFallbackFixedBaseline ==
    BaselineEmptied =>
        (ret.raised = "none"
            /\ ret.value = <<Zero, Zero, FixedBaselineChi2(ret.locals.bs)>>)

\* C4 (as stated): ... and a chi2 equal to the value chi2_nopulse() returns on
\* that filter.
C4_BaselineFallbackIsNoPulse ==
    BaselineEmptied =>
        (ret.raised = "none"
            /\ ret.value = <<Zero, Zero, OptimumFilter_chi2_nopulse(self).ret.value>>)

\* the fallback taken with a fitted baseline that is not zero, so that the two
\* chi^2 differ
C4_Witness ==
    /\ BaselineEmptied
    /\ ret.locals.bs # Zero
    /\ ret.value = <<Zero, Zero, FixedBaselineChi2(ret.locals.bs)>>
    /\ ret.value[3] # OptimumFilter_chi2_nopulse(self).ret.value

\* C5: whenever the zero-delay bin (rolled index nbins//2) is among the bins
\* ofamp_withdelay minimizes over, as it is with the default arguments, the
\* chi2 of ofamp_nodelay on the same filter is >= the chi2 ofamp_withdelay
\* returned.
C5_NodelayChi2AtLeastWithdelay ==
    (/\ ReturnedFrom("ofamp_withdelay")
     /\ ret.raised = "none"
     /\ (self.nbins \div 2) \in
            Candidates(self.amps_withdelay, ret.args.nconstrain,
                       ret.args.lgcoutsidewindow, ret.args.pulse_direction_constraint))
        => RGe(ofamp_nodelay(self).ret.value[2], ret.value[3])

DefaultWithdelay ==
    /\ ReturnedFrom("ofamp_withdelay")
    /\ ret.args = [nconstrain |-> None, lgcoutsidewindow |-> FALSE,
                   pulse_direction_constraint |-> 0]

\* a default call on a signal whose best delay is not zero: strictly better
C5_Witness ==
    /\ DefaultWithdelay
    /\ ret.raised = "none"
    /\ RGt(ofamp_nodelay(self).ret.value[2], ret.value[3])

\* C6: a search with nconstrain > nbins selects the bin the search with
\* nconstrain = nbins selects, for every chi2 array, mask and
\* lgcoutsidewindow; with lgcoutsidewindow = False it is the bin of the
\* unconstrained search (nconstrain = None).
C6_WindowClamped ==
    (/\ pc = "search"
     /\ search.call # None
     /\ search.call.nconstrain # None
     /\ search.call.nconstrain[1] > NBinsOf(search.chi2))
        => LET c     == search.call
               exact == _argmin_chi2(search.chi2, Some(NBinsOf(search.chi2)),
                                     c.lgcoutsidewindow, c.constraint_mask)
               free  == _argmin_chi2(search.chi2, None, FALSE, c.constraint_mask)
           IN  /\ c.raised = "none" /\ exact.raised = "none"
               /\ c.value = exact.value
               /\ ~c.lgcoutsidewindow => c.value = free.value

\* an over-long window, inside, with a mask that rules bin 0 out: bin 1 found
C6_Witness ==
    /\ pc = "search"
    /\ search.call # None
    /\ search.call.nconstrain = Some(NBinsOf(search.chi2) + 2)
    /\ ~search.call.lgcoutsidewindow
    /\ search.call.constraint_mask # None
    /\ ~search.call.constraint_mask[0]
    /\ search.call.value = R(1)

\* the calls that hand a window <= 0 to the search
WindowReached ==
    \/ /\ ret.op \in {"ofamp_withdelay", "ofamp_pileup_stationary", "ofamp_baseline",
                      "ofamp_pileup_stationary_function"}
       /\ NonPositive(ret.args.nconstrain)
    \/ /\ ret.op = "ofamp_pileup_iterative"
       /\ NonPositive(ret.args.nconstrain)
       /\ T1InTrace(ret.args.t1)
    \/ /\ ret.op = "ofamp"
       /\ ret.args.withdelay
       /\ NonPositive(ret.args.nconstrain)
    \/ /\ ret.op = "ofamp_pileup"
       /\ IF ret.args.a1 = None
          THEN NonPositive(ret.args.nconstrain1) \/ NonPositive(ret.args.nconstrain2)
          ELSE T1InTrace(ret.args.t1) /\ NonPositive(ret.args.nconstrain2)

\* C7 (as amended): a window nconstrain <= 0 raises ValueError, and no fit is
\* returned, in ofamp_withdelay, ofamp_pileup_stationary, ofamp_baseline and
\* the function ofamp_pileup_stationary whatever the other arguments; in
\* ofamp_pileup_iterative when t1 lies in the trace; in ofamp when
\* withdelay=True; in ofamp_pileup for nconstrain2 when the first pulse is
\* fitted or given with t1 in the trace, and for nconstrain1 when it is
\* fitted.  ofamp with withdelay=False does not read nconstrain and returns
\* the no-delay fit.
C7_NonPositiveWindowRaisesWhereSearched ==
    pc = "returned" =>
        /\ WindowReached => (ret.raised = "ValueError" /\ ret.value = None)
        /\ (ret.op = "ofamp" /\ ~ret.args.withdelay) => ret.raised = "none"

\* the calls of C7 as stated: any of the seven operations, a window <= 0
WindowNonPositive ==
    \/ /\ ret.op \in {"ofamp_withdelay", "ofamp_pileup_iterative",
                      "ofamp_pileup_stationary", "ofamp_baseline", "ofamp",
                      "ofamp_pileup_stationary_function"}
       /\ NonPositive(ret.args.nconstrain)
    \/ /\ ret.op = "ofamp_pileup"
       /\ (NonPositive(ret.args.nconstrain1) \/ NonPositive(ret.args.nconstrain2))

\* C7 (as stated): every delay-search operation called with nconstrain <= 0
\* raises ValueError and returns no fit, whatever the other arguments are.
C7_NonPositiveWindowAlwaysRaises ==
    (pc = "returned" /\ WindowNonPositive)
        => (ret.raised = "ValueError" /\ ret.value = None)

\* a zero-length window refused by the pile-up function, first pulse given
C7_Witness ==
    /\ ReturnedFrom("ofamp_pileup")
    /\ ret.args.a1 # None
    /\ T1InTrace(ret.args.t1)
    /\ ret.args.nconstrain2 = Some(0)
    /\ ret.raised = "ValueError"
    /\ ret.value = None

\* C8: ofamp_withdelay, ofamp_pileup_iterative (t1 in the trace) and
\* ofamp_baseline raise ValueError and return no fit for every polarity code
\* other than 0, 1, -1, whatever the window and the signal; with one of the
\* three codes and a valid window they raise nothing.
C8_PolarityCodes ==
    (/\ pc = "returned"
     /\ ret.op \in {"ofamp_withdelay", "ofamp_pileup_iterative", "ofamp_baseline"}
     /\ ret.op = "ofamp_pileup_iterative" => T1InTrace(ret.args.t1))
        => IF ret.args.pulse_direction_constraint \in PolarityCodes
           THEN WindowGiven(ret.args.nconstrain) => ret.raised = "none"
           ELSE ret.raised = "ValueError" /\ ret.value = None

\* an unknown code refused by the iterative pile-up search, the window valid
C8_Witness ==
    /\ ReturnedFrom("ofamp_pileup_iterative")
    /\ T1InTrace(ret.args.t1)
    /\ ret.args.pulse_direction_constraint \notin PolarityCodes
    /\ ret.args.nconstrain = Some(2)
    /\ ret.raised = "ValueError"

\* the working PSD the coupling asks for: bin 0 infinite under "AC", the
\* input otherwise
WorkingCopy(psd, coupling_) ==
    Tab([k \in DOMAIN psd |-> IF coupling_ = "AC" /\ k = 0 THEN Inf ELSE psd[k]])

WorkingCopies ==
    /\ self # None =>
          (self.psd0 = inputpsd[0] /\ self.psd = WorkingCopy(inputpsd, coupling))
    /\ (pc = "returned" /\ ret.psd # None /\ ret.raised = "none") =>
          ret.psd = WorkingCopy(inputpsd, coupling)

\* C9: no step (the constructor, a method, or one of the functions ofamp,
\* ofamp_pileup, ofamp_pileup_stationary, chi2lowfreq, chi2_nopulse) changes
\* the caller's PSD array; the working copy of the filter, and of every
\* function call that returns, has bin 0 infinite under "AC" and equals the
\* input otherwise; psd0 is the input's bin 0.
C9_CallerPsdUntouched ==
    [](WorkingCopies) /\ [][inputpsd' = inputpsd]_vars

\* the pile-up function returned under AC coupling: its copy has an infinite
\* bin 0, the caller's array has not
C9_Witness ==
    /\ ReturnedFrom("ofamp_pileup")
    /\ coupling = "AC"
    /\ ret.raised = "none"
    /\ RIsInf(ret.psd[0])
    /\ RIsFinite(inputpsd[0])

\* the shifts k of C10
Shifts == LET n == NBinsOf(signal) IN -(n \div 2) .. (n - 1 - (n \div 2))

\* the filtered template at every lag: np.real(ifft(phi*s*nbins))*df, which
\* is norm at lag 0
TemplateAtLag ==
    LET x == ifft(Tab([k \in DOMAIN self.phi |->
                      CScale(CMul(self.phi[k], self.s[k]), R(self.nbins))]))
    IN  Tab([i \in DOMAIN x |-> RMul(Re(x[i]), self.df)])

\* at no other lag does the filtered template reach norm in magnitude
Unambiguous ==
    \A lag \in 1 .. self.nbins - 1 : RLt(RAbs(TemplateAtLag[lag]), self.norm)

\* C10 (as amended): for a template whose filtered copy stays below norm in
\* magnitude at every non-zero lag, and a signal that is the template shifted
\* circularly by k bins, ofamp_withdelay with default arguments returns
\* amplitude 1, t0 = k/fs and chi2 0.
C10_ShiftRecoveredWhenUnambiguous ==
    (DefaultWithdelay /\ Unambiguous) =>
        \A k \in Shifts :
            signal = roll(template, k) =>
                (ret.raised = "none" /\ ret.value = <<One, RDiv(R(k), Fs), Zero>>)

\* C10 (as stated): for every template and PSD and every shift k, a signal
\* that is the template shifted by k bins gives amplitude 1, t0 = k/fs, chi2 0.
C10_ShiftRecovered ==
    DefaultWithdelay =>
        \A k \in Shifts :
            signal = roll(template, k) =>
                (ret.raised = "none" /\ ret.value = <<One, RDiv(R(k), Fs), Zero>>)

\* a shift by one bin recovered under AC coupling
C10_Witness ==
    /\ DefaultWithdelay
    /\ Unambiguous
    /\ coupling = "AC"
    /\ signal = roll(template, 1)
    /\ ret.value = <<One, RDiv(One, Fs), Zero>>

-----------------------------------------------------------------------------
(* The delay search: which bin it returns, and which bins a window holds.  *)

SearchReturned == pc = "search" /\ search.call # None

\* the bins a mask lets through
MaskBins(nbins, constraint_mask) ==
    IF constraint_mask = None THEN 0 .. nbins - 1
    ELSE {i \in 0 .. nbins - 1 : constraint_mask[i]}

\* the candidate set of the returned search: window intersected with mask
SearchCandidates ==
    WindowBins(NBinsOf(search.chi2), search.call.nconstrain,
               search.call.lgcoutsidewindow)
        \cap MaskBins(NBinsOf(search.chi2), search.call.constraint_mask)

\* C15: a search whose candidate set (window intersected with mask) is not
\* empty returns a bin of the candidate set whose chi2 is <= the chi2 of
\* every candidate, and the smallest such bin when several tie; in the
\* windowed, outside-window, mask-only and unconstrained branches alike.
C15_ArgminIsFirstMinimum ==
    (/\ SearchReturned
     /\ WindowGiven(search.call.nconstrain)
     /\ SearchCandidates # {})
        => /\ search.call.raised = "none"
           /\ \E i \in SearchCandidates :
                 /\ search.call.value = R(i)
                 /\ \A j \in SearchCandidates :
                       /\ RLe(search.chi2[i], search.chi2[j])
                       /\ search.chi2[j] = search.chi2[i] => i <= j

\* a tie between two candidates outside the window, the lower bin masked out
\* of a three-way tie: bins 0, 1, 3 hold the minimum, bin 0 is masked, bin 1
\* is returned
C15_Witness ==
    /\ SearchReturned
    /\ NBinsOf(search.chi2) = 4
    /\ search.call.nconstrain = Some(1)
    /\ search.call.lgcoutsidewindow
    /\ search.call.constraint_mask # None
    /\ SearchCandidates = {1, 3}
    /\ search.chi2[0] = Zero /\ search.chi2[1] = Zero /\ search.chi2[3] = Zero
    /\ search.call.value = R(1)

Bins(inds) == {inds[p] : p \in DOMAIN inds}

\* the window arguments of C16: a length from 1 to nbins
WindowFits == /\ SearchReturned
              /\ search.call.nconstrain # None
              /\ search.call.nconstrain[1] \in 1 .. NBinsOf(search.chi2)

\* nbins//2 - w//2 .. nbins//2 + w//2 + w%2 - 1
CentredBins(nbins, w) ==
    ((nbins \div 2) - (w \div 2)) .. ((nbins \div 2) + (w \div 2) + (w % 2) - 1)

\* C16: for a window 1 <= w <= nbins the inside candidates are exactly the w
\* contiguous bins nbins//2 - w//2 .. nbins//2 + w//2 + w%2 - 1, all in
\* [0, nbins) and with the midpoint nbins//2 among them, and the outside
\* candidates are exactly the other nbins - w bins; no bin is listed twice.
C16_WindowAndComplement ==
    WindowFits =>
        LET nbins == NBinsOf(search.chi2)
            w     == search.call.nconstrain[1]
            inds  == search.call.inds
        IN  /\ Cardinality(CentredBins(nbins, w)) = w
            /\ CentredBins(nbins, w) \subseteq 0 .. nbins - 1
            /\ (nbins \div 2) \in CentredBins(nbins, w)
            /\ Cardinality(Bins(inds)) = Len(inds)
            /\ IF search.call.lgcoutsidewindow
               THEN Bins(inds) = (0 .. nbins - 1) \ CentredBins(nbins, w)
               ELSE Bins(inds) = CentredBins(nbins, w)

\* an odd window in an odd trace, searched outside: bins 0 and 2 of three
C16_Witness ==
    /\ WindowFits
    /\ NBinsOf(search.chi2) = 3
    /\ search.call.nconstrain = Some(1)
    /\ search.call.lgcoutsidewindow
    /\ search.call.inds = <<0, 2>>

-----------------------------------------------------------------------------
(* The polarity constraint and the fallback of the iterative pile-up fit.  *)

PolarityFits == {"ofamp_withdelay", "ofamp_pileup_iterative", "ofamp_baseline"}

\* the amplitude array the returned fit searched
SearchedAmps ==
    CASE ret.op = "ofamp_withdelay"        -> self.amps_withdelay
      [] ret.op = "ofamp_pileup_iterative" -> ret.locals.a2s
      [] ret.op = "ofamp_baseline"         -> ret.locals.amps_out

\* one of the three fits has returned a result under a sign constraint
SignConstrained ==
    /\ pc = "returned"
    /\ ret.op \in PolarityFits
    /\ ret.args.pulse_direction_constraint \in {1, -1}
    /\ ret.raised = "none"

SignCandidates ==
    Candidates(SearchedAmps, ret.args.nconstrain, ret.args.lgcoutsidewindow,
               ret.args.pulse_direction_constraint)

\* C17: under pulse_direction_constraint = 1 (resp. -1) the amplitude that
\* ofamp_withdelay, ofamp_pileup_iterative and ofamp_baseline return is
\* > 0 (resp. < 0) and is the amplitude of a candidate bin; otherwise no bin
\* is a candidate and the amplitude and the delay returned are exactly 0.
C17_SignConstraintRespected ==
    SignConstrained =>
        IF SignCandidates = {}
        THEN ret.value[1] = Zero /\ ret.value[2] = Zero
        ELSE /\ \E i \in SignCandidates : ret.value[1] = SearchedAmps[i]
             /\ ret.args.pulse_direction_constraint = 1 => RGt(ret.value[1], Zero)
             /\ ret.args.pulse_direction_constraint = -1 => RLt(ret.value[1], Zero)

\* a positive amplitude returned by the baseline fit although a bin whose
\* amplitude is exactly 0 lies in the window
C17_Witness ==
    /\ SignConstrained
    /\ ret.op = "ofamp_baseline"
    /\ ret.args.pulse_direction_constraint = 1
    /\ RGt(ret.value[1], Zero)
    /\ \E i \in WindowBins(NBinsOf(SearchedAmps), ret.args.nconstrain,
                           ret.args.lgcoutsidewindow) : SearchedAmps[i] = Zero

\* the calls of C18: the iterative fit ran (t1 in the trace, arguments valid)
\* and no bin was a candidate for the second pulse
IterativeEmptied ==
    /\ ReturnedFrom("ofamp_pileup_iterative")
    /\ T1InTrace(ret.args.t1)
    /\ WindowGiven(ret.args.nconstrain)
    /\ ret.args.pulse_direction_constraint \in PolarityCodes
    /\ Candidates(ret.locals.a2s, ret.args.nconstrain, ret.args.lgcoutsidewindow,
                  ret.args.pulse_direction_constraint) = {}

\* a1**2*norm - 2*a1*signalfilt_td[t1ind]*norm: what the first pulse alone
\* takes off the no-pulse chi^2
FirstPulseTerm(a1, t1) ==
    RMul(RMul(a1, self.norm),
         RSub(a1, RMul(R(2), PyGet(self.signalfilt_td,
                                   T1Ind(t1, Fs, NBinsOf(signal))))))

\* C18 (as amended): when no bin is a candidate for the second pulse,
\* ofamp_pileup_iterative returns a2 = 0, t2 = 0 and the chi^2 of the fit
\* with the first pulse alone, chi2_nopulse() + a1^2*norm
\* - 2*a1*signalfilt_td[t1ind]*norm; this is the no-pulse chi^2 when a1 = 0.
C18_IterativeFallbackFirstPulseOnly ==
    IterativeEmptied =>
        /\ ret.raised = "none"
        /\ ret.value = <<Zero, Zero,
                         RAdd(NoPulseOfSignal, FirstPulseTerm(ret.args.a1, ret.args.t1))>>
        /\ ret.args.a1 = Zero => ret.value[3] = NoPulseOfSignal

\* C18 (as stated): ... and a chi2 equal to the value of chi2_nopulse(), for
\* every a1 and t1.
C18_IterativeFallbackIsNoPulse ==
    IterativeEmptied =>
        (ret.raised = "none" /\ ret.value = <<Zero, Zero, NoPulseOfSignal>>)

\* the fallback taken with a first pulse of amplitude 1: the chi^2 returned is
\* not the no-pulse chi^2
C18_Witness ==
    /\ IterativeEmptied
    /\ ret.args.a1 = One
    /\ ret.raised = "none"
    /\ ret.value[1] = Zero /\ ret.value[2] = Zero
    /\ ret.value[3] # NoPulseOfSignal

-----------------------------------------------------------------------------
(* OFnonlin.fit_falltimes: the choice of the pulse model.  The numerical   *)
(* content (the spectra, the least-squares iterations) is left out; what   *)
(* is modelled is which functional form is selected, how many parameters   *)
(* it is given, which attributes the call sets and where it raises.  A     *)
(* guess is a tuple of placeholders, one per parameter.                    *)

MaxGuessLen == 9

\* an int or a bool passed as npolefit: <<"int", n>>, or <<"bool", 0>> for
\* False and <<"bool", 1>> for True
PyInt(n) == <<"int", n>>
PyFalse == <<"bool", 0>>
PyTrue == <<"bool", 1>>

\* npolefit == k, as Python compares an int or a bool with an int
PyEq(npolefit, k) == npolefit[2] = k

NPoleArgs == {PyInt(k) : k \in 0 .. 5} \cup {PyFalse, PyTrue}

GuessArgs == {None} \cup {Some([i \in 1 .. n |-> "guess"]) : n \in 1 .. MaxGuessLen}

TauriseArgs == {None, One}

\* lines 2305-2321
OFnonlin_init ==
    [npolefit |-> PyInt(1), taurise |-> None, data |-> None, error |-> None, dof |-> None]

\* (a length check that accepts any guess for the one-pole model)
GuessLengthUncheckedOnePole(npolefit) ==
    IF PyEq(npolefit, 4) THEN {8}
    ELSE IF PyEq(npolefit, 3) THEN {6}
    ELSE IF PyEq(npolefit, 2) THEN {4}
    ELSE 1 .. MaxGuessLen

\* the lengths of guess the chain of tests on self.npolefit accepts
GuessLength(npolefit) ==
    IF PyEq(npolefit, 4) THEN {8}
    ELSE IF PyEq(npolefit, 3) THEN {6}
    ELSE IF PyEq(npolefit, 2) THEN {4}
    ELSE {3}

\* p0: the guess supplied, or the guesses the call makes for the model
StartingPoint(npolefit, guess) ==
    IF guess # None THEN guess[1]
    ELSE IF PyEq(npolefit, 4)
    THEN <<"Aguess", "Bguess", "Cguess", "tauriseguess", "taufall1guess",
           "taufall2guess", "taufall3guess", "t0guess">>
    ELSE IF PyEq(npolefit, 3)
    THEN <<"Aguess", "Bguess", "tauriseguess", "taufall1guess", "taufall2guess",
           "t0guess">>
    ELSE IF PyEq(npolefit, 2)
    THEN <<"ampguess", "tauriseguess", "taufallguess", "t0guess">>
    ELSE <<"ampguess", "taufallguess", "t0guess">>

\* the functional form residuals() and the final chi^2 evaluate
FormOf(npolefit) ==
    IF PyEq(npolefit, 4) THEN "fourpole"
    ELSE IF PyEq(npolefit, 3) THEN "threepole"
    ELSE IF PyEq(npolefit, 2) THEN "twopole"
    ELSE "onepole"

\* the number of values residuals() unpacks params into
UnpackedBy(npolefit) ==
    IF PyEq(npolefit, 4) THEN 8
    ELSE IF PyEq(npolefit, 3) THEN 6
    ELSE IF PyEq(npolefit, 2) THEN 4
    ELSE 3

\* OFnonlin.residuals(params): the form evaluated, or the error raised (the
\* unpacking fails on a wrong count; onepole computes with self.taurise)
residuals(self_, params) ==
    IF Len(params) # UnpackedBy(self_.npolefit) THEN Raise("ValueError")
    ELSE IF FormOf(self_.npolefit) = "onepole" /\ self_.taurise = None
    THEN Raise("TypeError")
    ELSE Return(FormOf(self_.npolefit))

Fit(s, raised, solved, form, p0) ==
    [self |-> s, raised |-> raised, solved |-> solved, form |-> form, p0 |-> p0]

\* least_squares(self.residuals, x0 = p0, ...) and what follows it
fit_falltimes_solve(s3, p0) ==
    Let([r \in {residuals(s3, p0)} |->
    IF r.raised # "none" THEN Fit(s3, r.raised, TRUE, None, p0)
    ELSE Fit(s3, "none", TRUE, r.value, p0)])

\* OFnonlin.fit_falltimes(pulse, npolefit, guess = guess, taurise = taurise)
fit_falltimes(self_, npolefit, guess, taurise) ==
    Let([s1 \in {[self_ EXCEPT !.data = "fft(pulse)/norm",
                               !.error = "sqrt(psd/errscale)",
                               !.npolefit = npolefit]} |->
    IF PyEq(npolefit, 1) /\ taurise = None
    THEN Fit(s1, "ValueError", FALSE, None, None)
    ELSE
    Let([s2 \in {IF PyEq(npolefit, 1) THEN [s1 EXCEPT !.taurise = taurise] ELSE s1} |->
    IF guess # None /\ Len(guess[1]) \notin GuessLength(npolefit)
    THEN Fit(s2, "ValueError", FALSE, None, None)
    ELSE
    Let([p0 \in {StartingPoint(npolefit, guess)} |->
    fit_falltimes_solve([s2 EXCEPT !.dof = Len(p0)], p0)])])])

InitNonlin ==
    /\ self = OFnonlin_init
    /\ pc = "nonlin"
    /\ ret = NoCall
    /\ signal = None
    /\ template = None
    /\ inputpsd = None
    /\ coupling = None
    /\ search = None

CallFitFalltimes ==
    /\ pc = "nonlin"
    /\ \E npolefit \in NPoleArgs, guess \in GuessArgs, taurise \in TauriseArgs :
          \E f \in {fit_falltimes(self, npolefit, guess, taurise)} :
             /\ self' = f.self
             /\ ret' = [op |-> "fit_falltimes",
                        args |-> [npolefit |-> npolefit, guess |-> guess,
                                  taurise |-> taurise],
                        raised |-> f.raised, solved |-> f.solved, form |-> f.form,
                        p0 |-> f.p0]
    /\ pc' = "nonlin returned"
    /\ UNCHANGED <<signal, template, inputpsd, coupling, search>>

NonlinReturned ==
    /\ pc = "nonlin returned"
    /\ pc' = "nonlin"
    /\ UNCHANGED <<signal, template, inputpsd, coupling, self, ret, search>>

NextNonlin ==
    \/ CallFitFalltimes
    \/ NonlinReturned

SpecNonlin == InitNonlin /\ [][NextNonlin]_vars

FitReturned == pc = "nonlin returned"

\* the documented pole counts
PoleCounts == {PyInt(1), PyInt(2), PyInt(3), PyInt(4)}

\* 8 for npolefit = 4, 6 for 3, 4 for 2, 3 for 1
ParameterCount(npolefit) ==
    CASE npolefit = PyInt(4) -> 8
      [] npolefit = PyInt(3) -> 6
      [] npolefit = PyInt(2) -> 4
      [] npolefit = PyInt(1) -> 3

\* C13: fit_falltimes called with npolefit in 1..4 and a guess whose length
\* is not the parameter count of that model (8, 6, 4, 3) raises ValueError
\* and the least-squares solver is not run.
C13_WrongGuessLengthRaises ==
    (/\ FitReturned
     /\ ret.args.npolefit \in PoleCounts
     /\ ret.args.guess # None
     /\ Len(ret.args.guess[1]) # ParameterCount(ret.args.npolefit))
        => (ret.raised = "ValueError" /\ ~ret.solved)

\* a one-pole fit with taurise supplied, refused for its guess of 4 values
\* (the length of the two-pole guess)
C13_Witness ==
    /\ FitReturned
    /\ ret.args.npolefit = PyInt(1)
    /\ ret.args.taurise # None
    /\ ret.args.guess # None
    /\ Len(ret.args.guess[1]) = 4
    /\ ret.raised = "ValueError"
    /\ ~ret.solved

\* C14: npolefit = False performs the two-pole fit (4 parameters
\* A, tau_r, tau_f, t0; dof 4) and npolefit = True the one-pole fit
\* (3 parameters A, tau_f, t0; dof 3; taurise required), in fit_falltimes
\* and in residuals alike.
C14_BooleanPoleCounts ==
    (FitReturned /\ ret.args.guess = None) =>
        /\ ret.args.npolefit = PyFalse =>
              /\ ret.raised = "none" /\ ret.solved
              /\ ret.form = "twopole" /\ Len(ret.p0) = 4 /\ self.dof = 4
        /\ ret.args.npolefit = PyTrue =>
              IF ret.args.taurise = None
              THEN ret.raised = "ValueError" /\ ~ret.solved
              ELSE /\ ret.raised = "none" /\ ret.solved
                   /\ ret.form = "onepole" /\ Len(ret.p0) = 3 /\ self.dof = 3

-----------------------------------------------------------------------------
(* The nS+mB engine: of_nSmB_setup and of_nSmB_inside, for one signal      *)
(* template and nB background templates.  A matrix is the array of its     *)
(* rows; the templates are kept as the array of the columns of the         *)
(* source's (time bins) X (n + m) matrix.  The outputs modelled are        *)
(* aminsqueezeNew, tdelminNew, bminsqueezeNew, chi2minNew, a0 and chi20;   *)
(* the residual waveform, the low-frequency and background-only chi^2, the *)
(* gradient diagnostics and the plots are left out.                        *)

\* a . b for two real arrays on the same indices
Dot(u, v) == RSum(Tab([i \in DOMAIN u |-> RMul(u[i], v[i])]))

\* np.matmul of a matrix and a vector
MatVec(M, v) == Tab([r \in DOMAIN M |-> Dot(M[r], v)])

Column(A, k) == Tab([i \in DOMAIN A |-> A[i][k]])

\* the rows of the pseudo-inverse of [A_k-1, a] from the rows P of the
\* pseudo-inverse of A_k-1 (the columns before a), by Greville's recursion
GrevilleRows(P, d, b) ==
    Tab([r \in 0 .. NBinsOf(P) |->
            IF r < NBinsOf(P)
            THEN Tab([i \in DOMAIN b |-> RSub(P[r][i], RMul(d[r], b[i]))])
            ELSE b])

GrevilleLast(P, d, c, cc) ==
    IF cc # Zero
    THEN Tab([i \in DOMAIN c |-> RDiv(c[i], cc)])
    ELSE Tab([i \in DOMAIN c |->
                 RDiv(RSum(Tab([r \in DOMAIN d |-> RMul(d[r], P[r][i])])),
                      RAdd(One, Dot(d, d)))])

GrevilleResidual(A, P, a, d) ==
    Tab([i \in DOMAIN a |->
            RSub(a[i], RSum(Tab([r \in DOMAIN d |-> RMul(A[i][r], d[r])])))])

GrevilleWith(P, d, c) == GrevilleRows(P, d, GrevilleLast(P, d, c, Dot(c, c)))

GrevilleNext(A, P, a, d) == GrevilleWith(P, d, GrevilleResidual(A, P, a, d))

GrevilleStep(A, P, a) == GrevilleNext(A, P, a, MatVec(P, a))

GrevilleFirst(a, aa) ==
    Tab([r \in {0} |-> Tab([i \in DOMAIN a |-> IF aa = Zero THEN Zero ELSE RDiv(a[i], aa)])])

\* the pseudo-inverse of the first k columns of A
RECURSIVE Greville(_, _)
Greville(A, k) ==
    IF k = 1 THEN GrevilleFirst(Column(A, 0), Dot(Column(A, 0), Column(A, 0)))
    ELSE GrevilleStep(A, Greville(A, k - 1), Column(A, k - 1))

\* np.linalg.pinv of a square matrix (the empty matrix included)
pinv(A) == IF NBinsOf(A) = 0 THEN A ELSE Greville(A, NBinsOf(A))

\* sbTemplatet: the signal template followed by the background templates
of_nSmB_fftTemplate_t(sTemplatet, bTemplatet) ==
    Tab([j \in 0 .. NBinsOf(bTemplatet) |->
            IF j = 0 THEN sTemplatet ELSE bTemplatet[j - 1]])

\* sbTemplatef = np.fft.fft(sbTemplatet, axis=0)/nt
of_nSmB_fftTemplate_f(sbTemplatet, nt) ==
    Tab([j \in DOMAIN sbTemplatet |->
            Tab([f \in 0 .. nt - 1 |-> CDivR(fft(Cplx(sbTemplatet[j]))[f], R(nt))])])

\* OFfiltf_l[jr,:] = conj(sbTemplatef[:,jr])/psddnu
OFfiltf_l(sbTemplatef, psddnu) ==
    Tab([jr \in DOMAIN sbTemplatef |->
            Tab([f \in DOMAIN psddnu |-> CDivR(CConj(sbTemplatef[jr][f]), psddnu[f])])])

\* Wf_l[jr,jc,:] = conj(sbTemplatef[:,jr])/psddnu*sbTemplatef[:,jc]
Wf_l(OFfiltf, sbTemplatef) ==
    Tab([jr \in DOMAIN OFfiltf |->
            Tab([jc \in DOMAIN OFfiltf |->
                    Tab([f \in DOMAIN OFfiltf[jr] |->
                            CMul(OFfiltf[jr][f], sbTemplatef[jc][f])])])])

\* Wf_l_summed = np.real(np.sum(Wf_l, axis=2))
Wf_l_summed(Wf) ==
    Tab([jr \in DOMAIN Wf |-> Tab([jc \in DOMAIN Wf |-> Re(CSum(Wf[jr][jc]))])])

\* Wt_l = np.fft.ifft(Wf, axis=2)*nt
Wt_lOf(Wf, nt) ==
    Tab([jr \in DOMAIN Wf |->
            Tab([jc \in DOMAIN Wf |->
                    Tab([t \in 0 .. nt - 1 |-> CScale(ifft(Wf[jr][jc])[t], R(nt))])])])

\* (the copy of Wt_l without the loop of lines 1359-1362: the lower triangle
\* keeps its own inverse transform)
WtAtUnmirrored(Wt_l, nS, jt) ==
    Tab([jr \in DOMAIN Wt_l |->
            Tab([jc \in DOMAIN Wt_l |->
                    IF (jr < nS) = (jc < nS)
                    THEN Re(Wt_l[jr][jc][0])
                    ELSE Re(Wt_l[jr][jc][jt])])])

\* Wt[:,:,jt] after lines 1337-1362: the signal-signal and the
\* background-background pieces are those of delay 0, the signal-background
\* piece is that of delay jt, the lower triangle mirrors the upper one
WtAt(Wt_l, nS, jt) ==
    Tab([jr \in DOMAIN Wt_l |->
            Tab([jc \in DOMAIN Wt_l |->
                    IF (jr < nS) = (jc < nS)
                    THEN Re(Wt_l[IF jr > jc THEN jc ELSE jr][IF jr > jc THEN jr ELSE jc][0])
                    ELSE Re(Wt_l[IF jr > jc THEN jc ELSE jr][IF jr > jc THEN jr ELSE jc][jt])])])

\* BB = np.squeeze(noTimeShiftBBMat)
BBOf(Wt_l, nS, nB) ==
    Tab([r \in 0 .. nB - 1 |-> Tab([c \in 0 .. nB - 1 |-> Re(Wt_l[nS + r][nS + c][0])])])

\* psddnu = np.expand_dims(psd,1)*dnu; psddnu[0] = psddnu[1]
psddnuOf(psd, dnu) ==
    Tab([f \in DOMAIN psd |-> RMul(psd[IF f = 0 THEN 1 ELSE f], dnu)])

of_nSmB_setup_matrices(nt, nS, nB, psddnu, sbTemplatet, sbTemplatef, OFfiltf, Wf) ==
    Let([Wt_l \in {Wt_lOf(Wf, nt)} |->
    Let([Wt \in {Tab([jt \in 0 .. nt - 1 |-> WtAt(Wt_l, nS, jt)])} |->
    Let([BB \in {BBOf(Wt_l, nS, nB)} |->
    \* np.linalg.pinv of the 0-dimensional array np.squeeze leaves of a 1 x 1
    \* background block
    IF nB = 1 THEN [raised |-> "LinAlgError"]
    ELSE [raised |-> "none", psddnu |-> psddnu, OFfiltf |-> OFfiltf, Wf_l |-> Wf,
          Wf_l_summed |-> Wf_l_summed(Wf), Wt_l |-> Wt_l,
          sbTemplatef |-> sbTemplatef, sbTemplatet |-> sbTemplatet,
          Wt |-> Wt, iWt |-> Tab([jt \in 0 .. nt - 1 |-> pinv(Wt[jt])]),
          iBB |-> pinv(BB), BB |-> BB, nS |-> nS, nB |-> nB]])])])

of_nSmB_setup_templates(nt, nS, nB, psddnu, sbTemplatet) ==
    Let([sbTemplatef \in {of_nSmB_fftTemplate_f(sbTemplatet, nt)} |->
    Let([OFfiltf \in {OFfiltf_l(sbTemplatef, psddnu)} |->
    of_nSmB_setup_matrices(nt, nS, nB, psddnu, sbTemplatet, sbTemplatef, OFfiltf,
                           Wf_l(OFfiltf, sbTemplatef))])])

\* of_nSmB_setup(sTemplatet, bTemplatet, psd, fs)
of_nSmB_setup(sTemplatet, bTemplatet, psd, fs) ==
    of_nSmB_setup_templates(NBinsOf(sTemplatet), 1, NBinsOf(bTemplatet),
                            psddnuOf(psd, RDiv(fs, R(NBinsOf(sTemplatet)))),
                            of_nSmB_fftTemplate_t(sTemplatet, bTemplatet))

\* np.squeeze(np.nonzero(bitMask)): the indices of the components kept
Nonzero(bitMask) == SelectSeq(AllInds(bitMask), LAMBDA i : bitMask[i] = 1)

\* Wt_l2 of of_nSmB_getWt for the components indexBitMask, nS of them signal
Wt_l2(Wf_summed, Wt_l, bindelay, indexBitMask, nS) ==
    Tab([r \in 0 .. Len(indexBitMask) - 1 |->
            Tab([c \in 0 .. Len(indexBitMask) - 1 |->
                    IF (r < nS) = (c < nS)
                    THEN Wf_summed[indexBitMask[r + 1]][indexBitMask[c + 1]]
                    ELSE IF r < nS
                    THEN Re(Wt_l[indexBitMask[r + 1]][indexBitMask[c + 1]][bindelay])
                    ELSE Re(Wt_l[indexBitMask[c + 1]][indexBitMask[r + 1]][bindelay])])])

\* of_nSmB_getWt(Wf_l, Wf_l_summed, Wt_l, nt, bindelay = bindelay,
\* bitMask = bitMask): Wt_l2 (its pseudo-inverse is taken by the caller here)
of_nSmB_getWt(Wf_summed, Wt_l, bindelay, bitMask) ==
    Wt_l2(Wf_summed, Wt_l, bindelay, Nonzero(bitMask),
          IF bitMask[0] = 1 THEN 1 ELSE 0)

\* Wt_l2, iWt_l2 = of_nSmB_getWt(..., bindelay=bindelay, bitMask=bitMask)
of_nSmB_getWt_call(Wf_summed, Wt_l, bindelay, bitMask) ==
    \* np.squeeze leaves a 0-dimensional indexBitMask when one component is
    \* kept, and indexBitMask[0:nS] (lines 1199 and 1202) cannot slice it
    IF Len(Nonzero(bitMask)) = 1 THEN Raise("IndexError")
    ELSE Let([Wt \in {of_nSmB_getWt(Wf_summed, Wt_l, bindelay, bitMask)} |->
         Return([Wt_l2 |-> Wt, iWt_l2 |-> pinv(Wt)])])

\* (a mask that keeps the components of amplitude > 0)
PositiveBits(a) == Tab([j \in DOMAIN a |-> IF RGt(a[j], Zero) THEN 1 ELSE 0])

\* np.asarray(a < 0, dtype=int)
NegativeBits(a) == Tab([j \in DOMAIN a |-> IF RLt(a[j], Zero) THEN 1 ELSE 0])

\* (a mask left as the signs give it)
ReservedFree(bits) == bits

\* bitCombFit[-1] = 1; bitCombFit[-2] = 1
ReservedKept(bits) ==
    Tab([j \in DOMAIN bits |-> IF j >= NBinsOf(bits) - 2 THEN 1 ELSE bits[j]])

\* a[np.ix_(indexBitMask)]
Taken(a, indexBitMask) ==
    Tab([q \in 0 .. Len(indexBitMask) - 1 |-> a[indexBitMask[q + 1]]])

\* z = np.zeros((n,1)); z[np.ix_(indexBitMask)] = aMask
Scattered(n, indexBitMask, aMask) ==
    Tab([j \in 0 .. n - 1 |->
            IF \E q \in DOMAIN indexBitMask : indexBitMask[q] = j
            THEN aMask[(CHOOSE q \in DOMAIN indexBitMask : indexBitMask[q] = j) - 1]
            ELSE Zero])

MaskedFit(nSB, bitCombFit, indexBitMask, Pm, aMask) ==
    [bitCombFit |-> bitCombFit, indexBitMask |-> indexBitMask,
     a_tsetMask |-> aMask, Pfiltt2_tsetMask |-> Pm,
     a_tsetNew |-> Scattered(nSB, indexBitMask, aMask)]

\* the masked re-solve of lines 1748-1764 (and 1781-1793) at the delay ii
MaskedSolve(S, ii, P, bitCombFit) ==
    MaskedFit(NBinsOf(P), bitCombFit, Nonzero(bitCombFit),
              Taken(P, Nonzero(bitCombFit)),
              MatVec(pinv(of_nSmB_getWt(S.Wf_l_summed, S.Wt_l, ii, bitCombFit)),
                     Taken(P, Nonzero(bitCombFit))))

\* np.amax(a_tsetNew[0:-1,ii]) > 0.0
SecondPassNeeded(a) == \E j \in 0 .. NBinsOf(a) - 2 : RGt(a[j], Zero)

\* (a chi^2 taken from the first masked solve, whatever came after it)
Chi2OfFirstSolve(first, last, chi2base) ==
    RSub(chi2base, Dot(first.a_tsetMask, first.Pfiltt2_tsetMask))

\* chi2t0setMask = np.sum(a_tsetMask*Pfiltt2_tsetMask,0);
\* chi2New[ii] = chi2base-chi2t0setMask
Chi2OfLastSolve(first, last, chi2base) ==
    RSub(chi2base, Dot(last.a_tsetMask, last.Pfiltt2_tsetMask))

\* what the turn ii of the loop leaves: a_tsetNew[:,ii], bitCombFitVec[:,ii]
\* and chi2New[ii], with the values the turn went through
DelayFit(P, a_tset, first, last, second, chi2base) ==
    [a_tset |-> a_tset, first |-> first.indexBitMask, a_first |-> first.a_tsetNew,
     bitCombFit1 |-> first.bitCombFit, Pfiltt2_tset |-> P, chi2base |-> chi2base,
     second |-> second, bitCombFit |-> last.bitCombFit, a_tsetNew |-> last.a_tsetNew,
     chi2New |-> Chi2OfLastSolve(first, last, chi2base)]

SecondPass(S, ii, P, a_tset, first, chi2base) ==
    IF SecondPassNeeded(first.a_tsetNew)
    THEN DelayFit(P, a_tset, first,
                  MaskedSolve(S, ii, P, ReservedKept(NegativeBits(first.a_tsetNew))),
                  TRUE, chi2base)
    ELSE DelayFit(P, a_tset, first, first, FALSE, chi2base)

FirstPass(S, ii, P, a_tset, chi2base) ==
    SecondPass(S, ii, P, a_tset,
               MaskedSolve(S, ii, P, ReservedKept(NegativeBits(a_tset))), chi2base)

AllOnes(n) == Tab([j \in 0 .. n - 1 |-> 1])

\* one turn of the loop over the delays (lines 1694-1879)
ConstrainedAt(S, ii, P, chi2base) ==
    FirstPass(S, ii, P,
              MatVec(pinv(of_nSmB_getWt(S.Wf_l_summed, S.Wt_l, ii, AllOnes(NBinsOf(P)))), P),
              chi2base)

\* ind_window[lgcneg] = nt+ind_window[lgcneg], then
\* ind_window[lgc_toobig] = np.mod(ind_window[lgc_toobig], nt)
Wrap(w, nt) == IF w >= nt THEN w % nt ELSE w
NormalisedWindow(ind_window, nt) ==
    [i \in DOMAIN ind_window |->
        Wrap(IF ind_window[i] < 0 THEN nt + ind_window[i] ELSE ind_window[i], nt)]

\* tdelminNew = ((ind_tdel_New) - nt*(ind_tdel_New>nt/2))*dt
DelayTime(ind, nt, fs) ==
    RDiv(R(IF 2 * ind > nt THEN ind - nt ELSE ind), fs)

\* BB_Mask = BB[np.ix_(indexBitMaskBackground, indexBitMaskBackground)] and
\* bOnlyACon, the pseudo-inverse solution scattered over the nB backgrounds
MaskedSolveBackground(BB, backgroundSum, bitCombFitBackground) ==
    Scattered(NBinsOf(backgroundSum), Nonzero(bitCombFitBackground),
              MatVec(pinv(Tab([r \in 0 .. Len(Nonzero(bitCombFitBackground)) - 1 |->
                             Tab([c \in 0 .. Len(Nonzero(bitCombFitBackground)) - 1 |->
                                     BB[Nonzero(bitCombFitBackground)[r + 1]]
                                       [Nonzero(bitCombFitBackground)[c + 1]]])])),
                     Taken(backgroundSum, Nonzero(bitCombFitBackground))))

Engine(raised, value, delays, window, bitCombFitBackground) ==
    [raised |-> raised, value |-> value, delays |-> delays, ind_window |-> window,
     bitCombFitBackground |-> bitCombFitBackground]

\* the position a[i] reads in an array of nt entries: a negative i counts
\* from the end
Position(i, nt) == IF i < 0 THEN i + nt ELSE i
Positions(w, nt) == [i \in DOMAIN w |-> Position(w[i], nt)]

of_nSmB_inside_best(nt, fs, delays, w, b, a0, chi20, ind) ==
    Engine("none",
           [aminsqueezeNew |-> delays[Position(ind, nt)].a_tsetNew,
            tdelminNew |-> DelayTime(ind, nt, fs),
            bminsqueezeNew |-> b.bOnlyACon,
            chi2minNew |-> delays[Position(ind, nt)].chi2New,
            ind_tdel_New |-> ind,
            a0 |-> a0, chi20 |-> chi20],
           delays, w, b.bitCombFitBackground)

of_nSmB_inside_search(nt, fs, delays, w, b, a0, chi20) ==
    of_nSmB_inside_best(nt, fs, delays, w, b, a0, chi20,
                        w[npargmin(Tab([t \in DOMAIN delays |-> delays[t].chi2New]),
                                   Positions(w, nt)) + 1])

\* the amplitudes at every delay, the window, the constrained search
of_nSmB_inside_delays(S, nt, fs, ind_window, Pfiltt2N, chi2base, b) ==
    \* chi2_t[ind_window] with an entry still below -nt after the window has
    \* been written
    IF \E i \in DOMAIN ind_window : NormalisedWindow(ind_window, nt)[i] < -nt
    THEN Engine("IndexError", None, None, NormalisedWindow(ind_window, nt),
                b.bitCombFitBackground)
    ELSE
    Let([a0 \in {MatVec(S.iWt[0], Pfiltt2N[0])} |->
    of_nSmB_inside_search(nt, fs,
        Tab([ii \in 0 .. nt - 1 |-> ConstrainedAt(S, ii, Pfiltt2N[ii], chi2base)]),
        NormalisedWindow(ind_window, nt), b, a0,
        RSub(chi2base, Dot(a0, Pfiltt2N[0])))])

\* the background-only fit and its constrained version (lines 1531-1607)
of_nSmB_inside_background(S, nt, fs, ind_window, Pfiltt2N, chi2base, backgroundSum) ==
    \* bitCombFitBackground[-1] = 1 on an array of fewer than two components
    IF S.nB < 2 THEN Engine("IndexError", None, None, ind_window, None)
    ELSE
    Let([bits \in {ReservedKept(NegativeBits(MatVec(S.iBB, backgroundSum)))} |->
    of_nSmB_inside_delays(S, nt, fs, ind_window, Pfiltt2N, chi2base,
        [bitCombFitBackground |-> bits,
         bOnlyACon |-> MaskedSolveBackground(S.BB, backgroundSum, bits)])])

\* Pfiltt2N, chi2base and backgroundSum (lines 1514-1529, 1621, 1629)
of_nSmB_inside_filtered(S, nt, pulsef, Pfiltf) ==
    Let([Pfiltt0 \in {Tab([t \in 0 .. nt - 1 |-> RMul(Re(ifft(Pfiltf[0])[t]), R(nt))])} |->
    Let([backgroundSum \in {Tab([b \in 0 .. S.nB - 1 |-> Re(CSum(Pfiltf[S.nS + b]))])} |->
    [Pfiltt2N |-> Tab([ii \in 0 .. nt - 1 |->
                         Tab([j \in DOMAIN Pfiltf |->
                                 IF j < S.nS THEN Pfiltt0[ii] ELSE backgroundSum[j - S.nS]])]),
     chi2base |-> RSum(Tab([f \in DOMAIN pulsef |-> RDiv(CAbs2(pulsef[f]), S.psddnu[f])])),
     backgroundSum |-> backgroundSum]])])

\* the pulse through the optimum filters (lines 1505-1512)
Filtered(pulset, S) ==
    Let([pulsef \in {Scaled(fft(Cplx(pulset)), NBinsOf(pulset), One)} |->
    of_nSmB_inside_filtered(S, NBinsOf(pulset), pulsef,
        Tab([jT \in DOMAIN S.OFfiltf |->
                Tab([f \in DOMAIN pulsef |-> CMul(S.OFfiltf[jT][f], pulsef[f])])]))])

\* of_nSmB_inside(pulset, OFfiltf, Wf_l, Wf_l_summed, Wt_l, sbTemplatef,
\* sbTemplate, iWt, iBB, BB, psddnu, fs, ind_window, nS, nB, bitComb), the
\* matrices being those of the set-up S
of_nSmB_inside(pulset, S, fs, ind_window) ==
    Let([F \in {Filtered(pulset, S)} |->
    of_nSmB_inside_background(S, NBinsOf(pulset), fs, ind_window,
                              F.Pfiltt2N, F.chi2base, F.backgroundSum)])

-----------------------------------------------------------------------------
\* The nS+mB engine as a caller drives it: of_nSmB_setup on one signal template
\* and m background templates, then of_nSmB_inside on a pulse and the
\* caller's window of delays.  template holds sTemplatet, signal the pulse,
\* inputpsd the psd, search the background templates, the caller's ind_window
\* array and the matrices of the set-up.

\* the slope and the DC level, the last two background templates by the
\* convention of lines 1556-1559
SlopeTemplate == Tab([i \in 0 .. 3 |-> RDiv(R(i), R(4))])
DCTemplate == RArr(<<1, 1, 1, 1>>)

\* bTemplatet: the columns of the (time bins) X (m) array, m = 0 .. 4
BackgroundArgs ==
    {Arr(<<>>),
     Arr(<<DCTemplate>>),
     Arr(<<SlopeTemplate, DCTemplate>>),
     Arr(<<RArr(<<0, 2, 2, 0>>), SlopeTemplate, DCTemplate>>),
     Arr(<<RArr(<<0, 2, 2, 0>>), RArr(<<1, 2, 2, 1>>), SlopeTemplate, DCTemplate>>)}

\* sTemplatet
SignalTemplateArgs == {RArr(<<0, 0, 1, 0>>), RArr(<<1, 0, 0, 0>>)}

\* pulset
PulseArgs == {RArr(<<-2, 0, 1, 0>>), RArr(<<-2, 2, -2, 0>>), RArr(<<0, 0, -1, 0>>)}

\* ind_window, a 1 X k array of delays, some negative, some >= nt
IndWindowArgs == {<<0, 1, 2, 3>>, <<-1, 0, 1>>, <<3, 4, 5>>, <<3>>, <<-5, 9>>, <<-9, 0>>}

InitNSmB ==
    /\ pc = "nsmb"
    /\ template \in SignalTemplateArgs
    /\ signal \in PulseArgs
    /\ inputpsd = RArr(<<1, 1, 1, 1>>)
    /\ coupling = None
    /\ self = None
    /\ ret = None
    /\ \E b \in BackgroundArgs, w \in IndWindowArgs :
          search = [bTemplatet |-> b, ind_window |-> w, setup |-> None]

\* psddnu, OFfiltf, ... = of_nSmB_setup(sTemplatet, bTemplatet, psd, fs)
CallNSmBSetup ==
    /\ pc = "nsmb"
    /\ \E S \in {of_nSmB_setup(template, search.bTemplatet, inputpsd, Fs)} :
          IF S.raised # "none"
          THEN /\ pc' = "nsmb returned"
               /\ ret' = [op |-> "of_nSmB_setup", args |-> None,
                          raised |-> S.raised, value |-> None, locals |-> None,
                          background |-> None]
               /\ UNCHANGED search
          ELSE /\ pc' = "nsmb ready"
               /\ search' = [search EXCEPT !.setup = S]
               /\ UNCHANGED ret
    /\ UNCHANGED <<signal, template, inputpsd, coupling, self>>

\* of_nSmB_inside(pulset, OFfiltf, ..., fs, ind_window, nS, nB, bitComb): the
\* call writes no array of the caller but ind_window
CallNSmBInside ==
    /\ pc = "nsmb ready"
    /\ \E r \in {of_nSmB_inside(signal, search.setup, Fs, search.ind_window)} :
          /\ ret' = [op |-> "of_nSmB_inside",
                     args |-> [pulset |-> signal, ind_window |-> search.ind_window,
                               nS |-> search.setup.nS, nB |-> search.setup.nB],
                     raised |-> r.raised, value |-> r.value, locals |-> r.delays,
                     background |-> r.bitCombFitBackground]
          /\ search' = [search EXCEPT !.ind_window = r.ind_window]
    /\ pc' = "nsmb returned"
    /\ UNCHANGED <<signal, template, inputpsd, coupling, self>>

\* of_nSmB_getWt(Wf_l, Wf_l_summed, Wt_l, nt, bindelay=bindelay,
\* bitMask=bitMask) on the matrices of the set-up, for any delay and any of
\* the 2**nSB masks of bitComb
CallNSmBGetWt ==
    /\ pc = "nsmb ready"
    /\ \E bindelay \in DOMAIN signal, bitMask \in [DOMAIN search.setup.Wt_l -> {0, 1}] :
          \E r \in {of_nSmB_getWt_call(search.setup.Wf_l_summed, search.setup.Wt_l,
                                       bindelay, Tab(bitMask))} :
             ret' = [op |-> "of_nSmB_getWt",
                     args |-> [bindelay |-> bindelay, bitMask |-> Tab(bitMask)],
                     raised |-> r.raised, value |-> r.value, locals |-> None,
                     background |-> None]
    /\ pc' = "nsmb returned"
    /\ UNCHANGED <<signal, template, inputpsd, coupling, self, search>>

NextNSmB ==
    \/ CallNSmBSetup
    \/ CallNSmBInside
    \/ CallNSmBGetWt

SpecNSmB == InitNSmB /\ [][NextNSmB]_vars

-----------------------------------------------------------------------------
\* The nS+mB engine: what a call of of_nSmB_inside returns and leaves behind.

InsideReturned == pc = "nsmb returned" /\ ret.op = "of_nSmB_inside"
InsideCompleted == InsideReturned /\ ret.raised = "none"

\* the fit of the single-template filter on the same waveform, template
\* and psd, searched over every delay
SingleTemplateFit ==
    ofamp_withdelay(OptimumFilter_init(signal, template, inputpsd, Fs, "AC", FALSE).self,
                    None, FALSE, 0).ret.value

\* C11: the engine run with one signal template and no background template
\* completes without error and returns the amplitude, the delay and the chi^2
\* of ofamp_withdelay on the same waveform, template and psd.
C11_NoBackgroundIsWithDelay ==
    (pc = "nsmb returned" /\ NBinsOf(search.bTemplatet) = 0) =>
        /\ ret.raised = "none"
        /\ ret.op = "of_nSmB_inside"
        /\ <<ret.value.aminsqueezeNew[0], ret.value.tdelminNew, ret.value.chi2minNew>>
             = SingleTemplateFit

\* C12: a call of of_nSmB_inside leaves the caller's ind_window, pulse,
\* template, psd and matrices with the values they had before the call,
\* whatever the window, negative or >= nt entries included.
C12_InsideLeavesInputsAlone ==
    InsideReturned =>
        /\ search.ind_window = ret.args.ind_window
        /\ signal = ret.args.pulset
        /\ search.setup.nS = ret.args.nS
        /\ search.setup.nB = ret.args.nB

\* the components other than the slope and DC slots, and those left out of
\* the first masked re-solve at the delay ii
Constrained(ii) == 0 .. NBinsOf(ret.locals[ii].a_tset) - 3
ExcludedFirst(ii) ==
    {j \in DOMAIN ret.locals[ii].a_tset :
        \A q \in DOMAIN ret.locals[ii].first : ret.locals[ii].first[q] # j}

C20_FinalVectorSignConstrained ==
    InsideCompleted =>
        /\ \A ii \in DOMAIN ret.locals :
              \A j \in Constrained(ii) : ~RGt(ret.locals[ii].a_tsetNew[j], Zero)
        /\ \A j \in 0 .. NBinsOf(ret.value.aminsqueezeNew) - 3 :
              ~RGt(ret.value.aminsqueezeNew[j], Zero)

\* the last two slots of a mask, those of the slope and of the DC level
ReservedIncluded(bits) ==
    /\ bits[NBinsOf(bits) - 1] = 1
    /\ bits[NBinsOf(bits) - 2] = 1

\* C21: in the background-only mask, in the first-pass and second-pass
\* masks of every delay and in bitCombFitVec, the slope and DC slots are
\* marked as included whatever the sign of their amplitudes (m >= 2).
C21_ReservedSlotsIncluded ==
    /\ (InsideReturned /\ ret.args.nB >= 2) => ReservedIncluded(ret.background)
    /\ InsideCompleted =>
          \A ii \in DOMAIN ret.locals :
              /\ ReservedIncluded(ret.locals[ii].bitCombFit1)
              /\ ReservedIncluded(ret.locals[ii].bitCombFit)

\* a delay at which the slope amplitude of the unconstrained fit is not
\* negative and a second pass was made
C21_Witness ==
    /\ InsideCompleted
    /\ \E ii \in DOMAIN ret.locals :
          /\ ret.locals[ii].second
          /\ ~RLt(ret.locals[ii].a_tset[NBinsOf(ret.locals[ii].a_tset) - 2], Zero)
          /\ ~RLt(ret.locals[ii].a_first[NBinsOf(ret.locals[ii].a_tset) - 2], Zero)

\* C22: for every delay the recorded mask, amplitudes and chi^2 are those of
\* the last masked solve: the amplitude is 0 wherever the mask bit is 0, the
\* chi^2 is chi2base minus the projection of those amplitudes, and what the
\* first-pass mask excludes the recorded mask excludes too.
C22_RecordsOfLastSolve ==
    InsideCompleted =>
        \A ii \in DOMAIN ret.locals :
            /\ \A j \in DOMAIN ret.locals[ii].bitCombFit :
                  ret.locals[ii].bitCombFit[j] = 0 => ret.locals[ii].a_tsetNew[j] = Zero
            /\ ret.locals[ii].chi2New
                 = RSub(ret.locals[ii].chi2base,
                        Dot(ret.locals[ii].a_tsetNew, ret.locals[ii].Pfiltt2_tset))
            /\ \A j \in DOMAIN ret.locals[ii].bitCombFit :
                  ret.locals[ii].bitCombFit1[j] = 0 => ret.locals[ii].bitCombFit[j] = 0

\* a delay whose second pass excluded one component more and changed the
\* amplitudes
C22_Witness ==
    /\ InsideCompleted
    /\ \E ii \in DOMAIN ret.locals :
          /\ ret.locals[ii].second
          /\ ret.locals[ii].bitCombFit # ret.locals[ii].bitCombFit1
          /\ ret.locals[ii].a_tsetNew # ret.locals[ii].a_first

\* C25: every window index supplied, of any sign and magnitude, is used as
\* an index of [0, nt) congruent to it modulo nt.
C25_WindowNormalised ==
    (InsideReturned /\ ret.args.nB >= 2) =>
        /\ ret.raised = "none"
        /\ \A i \in DOMAIN search.ind_window :
              /\ search.ind_window[i] \in 0 .. NBinsOf(signal) - 1
              /\ search.ind_window[i] % NBinsOf(signal)
                   = ret.args.ind_window[i] % NBinsOf(signal)
        /\ ret.value.ind_tdel_New \in 0 .. NBinsOf(signal) - 1

SetupCompleted == pc = "nsmb ready"
GetWtReturned == pc = "nsmb returned" /\ ret.op = "of_nSmB_getWt"

\* M[np.ix_(inds, inds)]
Submatrix(M, inds) ==
    Tab([r \in 0 .. Len(inds) - 1 |->
            Tab([c \in 0 .. Len(inds) - 1 |-> M[inds[r + 1]][inds[c + 1]]])])

\* C23: for every delay and every mask, the matrix of of_nSmB_getWt is the
\* principal submatrix, on the active components in their order, of the
\* matrix W(t) of the set-up; with the mask of ones it is W(t).
C23_GetWtIsSubmatrix ==
    GetWtReturned =>
        /\ ret.raised = "none"
        /\ ret.value.Wt_l2
             = Submatrix(search.setup.Wt[ret.args.bindelay], Nonzero(ret.args.bitMask))
        /\ (\A j \in DOMAIN ret.args.bitMask : ret.args.bitMask[j] = 1)
              => ret.value.Wt_l2 = search.setup.Wt[ret.args.bindelay]

\* C24: at every delay the weighting matrix of the set-up is symmetric and
\* its background-background block is the block of delay 0.
C24_SymmetricAndBackgroundFixed ==
    SetupCompleted =>
        \A jt \in DOMAIN search.setup.Wt :
            \A i, j \in DOMAIN search.setup.Wt[jt] :
                /\ search.setup.Wt[jt][i][j] = search.setup.Wt[jt][j][i]
                /\ (i >= search.setup.nS /\ j >= search.setup.nS)
                      => search.setup.Wt[jt][i][j] = search.setup.Wt[0][i][j]

\* a set-up with backgrounds whose signal-background block changes with the
\* delay
C24_Witness ==
    /\ SetupCompleted
    /\ search.setup.nB >= 2
    /\ \E jt \in DOMAIN search.setup.Wt :
          search.setup.Wt[jt][0][1] # search.setup.Wt[0][0][1]

-----------------------------------------------------------------------------
\* The loop over the delays of of_nSmB_inside (lines 1688-1897), the delays
\* taken in any order and their two passes interleaved.  search holds the
\* set-up, the filtered data, the arrays the loop fills (a_tsetNew,
\* bitCombFitVec, chi2New), and for each delay how far its turn has come and
\* the values its turn holds (bitCombFit, a_tsetMask, Pfiltt2_tsetMask).

\* (the column before ii)
ColumnBefore(a_tsetNew, ii) == a_tsetNew[(ii + NBinsOf(a_tsetNew) - 1) % NBinsOf(a_tsetNew)]

\* a_tsetNew[:,ii], as read at lines 1766 and 1774
ColumnOf(a_tsetNew, ii) == a_tsetNew[ii]

\* the windows, already brought into [0, nt)
LoopWindowArgs == {<<0, 1, 2, 3>>, <<3, 0, 1>>}

InitLoop ==
    /\ pc = "loop"
    /\ template \in SignalTemplateArgs
    /\ signal \in PulseArgs
    /\ inputpsd = RArr(<<1, 1, 1, 1>>)
    /\ coupling = None
    /\ self = None
    /\ ret = None
    /\ \E b \in {x \in BackgroundArgs : NBinsOf(x) >= 2}, w \in LoopWindowArgs :
          \E S \in {of_nSmB_setup(template, b, inputpsd, Fs)} :
             \E F \in {Filtered(signal, S)} :
                search = [setup |-> S, ind_window |-> w,
                          Pfiltt2N |-> F.Pfiltt2N, chi2base |-> F.chi2base,
                          stage |-> Tab([ii \in DOMAIN signal |-> "todo"]),
                          turn |-> Tab([ii \in DOMAIN signal |-> None]),
                          a_tsetNew |-> Tab([ii \in DOMAIN signal |->
                                               Tab([j \in DOMAIN S.OFfiltf |-> Zero])]),
                          bitCombFitVec |-> Tab([ii \in DOMAIN signal |->
                                                   Tab([j \in DOMAIN S.OFfiltf |-> 0])]),
                          chi2New |-> Tab([ii \in DOMAIN signal |-> Zero])]

\* lines 1703-1764 of the turn ii: the unconstrained fit, the first mask and
\* the first masked re-solve, written to a_tsetNew[:,ii]
LoopFirstPass ==
    /\ pc = "loop"
    /\ \E ii \in DOMAIN search.stage :
          /\ search.stage[ii] = "todo"
          /\ \E a_tset \in {MatVec(pinv(of_nSmB_getWt(search.setup.Wf_l_summed,
                                                       search.setup.Wt_l, ii,
                                                       AllOnes(NBinsOf(search.setup.OFfiltf)))),
                                   search.Pfiltt2N[ii])} :
                \E first \in {MaskedSolve(search.setup, ii, search.Pfiltt2N[ii],
                                          ReservedKept(NegativeBits(a_tset)))} :
                   search' = [search EXCEPT !.stage[ii] = "first",
                                            !.turn[ii] = first,
                                            !.a_tsetNew[ii] = first.a_tsetNew]
    /\ UNCHANGED <<signal, template, inputpsd, coupling, self, pc, ret>>

\* lines 1766-1876 of the turn ii: the second pass if a_tsetNew[:,ii] asks
\* for it, then bitCombFitVec[:,ii] and chi2New[ii]
LoopSecondPass ==
    /\ pc = "loop"
    /\ \E ii \in DOMAIN search.stage :
          /\ search.stage[ii] = "first"
          /\ \E col \in {ColumnOf(search.a_tsetNew, ii)} :
                \E last \in {IF SecondPassNeeded(col)
                             THEN MaskedSolve(search.setup, ii, search.Pfiltt2N[ii],
                                              ReservedKept(NegativeBits(col)))
                             ELSE search.turn[ii]} :
                   search' = [search EXCEPT !.stage[ii] = "done",
                                            !.turn[ii] = last,
                                            !.a_tsetNew[ii] = last.a_tsetNew,
                                            !.bitCombFitVec[ii] = last.bitCombFit,
                                            !.chi2New[ii] =
                                                Chi2OfLastSolve(last, last, search.chi2base)]
    /\ UNCHANGED <<signal, template, inputpsd, coupling, self, pc, ret>>

\* lines 1889-1897 once every delay is done
LoopSelect ==
    /\ pc = "loop"
    /\ \A ii \in DOMAIN search.stage : search.stage[ii] = "done"
    /\ \E ind \in {search.ind_window[npargmin(search.chi2New, search.ind_window) + 1]} :
          ret' = [op |-> "of_nSmB_inside", args |-> [ind_window |-> search.ind_window],
                  raised |-> "none",
                  value |-> [aminsqueezeNew |-> search.a_tsetNew[ind],
                             tdelminNew |-> DelayTime(ind, NBinsOf(signal), Fs),
                             chi2minNew |-> search.chi2New[ind],
                             ind_tdel_New |-> ind],
                  locals |-> None, background |-> None]
    /\ pc' = "loop done"
    /\ UNCHANGED <<signal, template, inputpsd, coupling, self, search>>

NextLoop ==
    \/ LoopFirstPass
    \/ LoopSecondPass
    \/ LoopSelect

SpecLoop == InitLoop /\ [][NextLoop]_vars

\* the call with the delays taken in order, one turn after the other
InOrder == of_nSmB_inside(signal, search.setup, Fs, search.ind_window)

ResetKeepingChi0(self_, line) ==
    CASE line = 241 -> self_
      [] line = 242 -> [self_ EXCEPT !.chit_withdelay = None]
      [] line = 243 -> [self_ EXCEPT !.signalfilt_td = None]
      [] line = 244 -> [self_ EXCEPT !.amps_withdelay = None]
      [] line = 245 -> [self_ EXCEPT !.chi_withdelay = None]

\* the reset of one cached field (lines 241-245)
Reset(self_, line) ==
    CASE line = 241 -> [self_ EXCEPT !.chi0 = None]
      [] line = 242 -> [self_ EXCEPT !.chit_withdelay = None]
      [] line = 243 -> [self_ EXCEPT !.signalfilt_td = None]
      [] line = 244 -> [self_ EXCEPT !.amps_withdelay = None]
      [] line = 245 -> [self_ EXCEPT !.chi_withdelay = None]

\* one statement of update_signal (lines 238-245): the transform of the new
\* signal is stored first, the product with phi broadcasts or raises, then the
\* five cached fields are reset one after the other
update_signal_line(self_, signal_, line) ==
    CASE line = 238 ->
           [self |-> [self_ EXCEPT !.v = Spectrum(signal_, self_.nbins, self_.df)],
            ret |-> Return(None), next |-> 239]
      [] line = 239 ->
           IF NBinsOf(self_.v) \notin {1, self_.nbins}
           THEN [self |-> self_, ret |-> Raise("ValueError"), next |-> -1]
           ELSE [self |-> [self_ EXCEPT !.signalfilt =
                             Tab([k \in DOMAIN self_.phi |->
                                 CDivR(CMul(self_.phi[k],
                                            self_.v[IF NBinsOf(self_.v) = 1 THEN 0 ELSE k]),
                                       self_.norm)])],
                 ret |-> Return(None), next |-> 241]
      [] line \in 241 .. 245 ->
           [self |-> Reset(self_, line), ret |-> Return(None),
            next |-> IF line = 245 THEN -1 ELSE line + 1]

\* one statement of ofamp_withdelay with its default arguments (lines 398-434);
\* a field that another caller has reset to None makes the statement that reads
\* it raise, a transform of another length makes the dot product raise
ofamp_withdelay_line(self_, locals, line) ==
    CASE line = 398 ->
           [self |-> WithSignalfiltTd(self_), locals |-> locals,
            ret |-> Return(None), next |-> 402]
      [] line = 402 ->
           IF self_.chi0 = None /\ NBinsOf(self_.v) # NBinsOf(self_.psd)
           THEN [self |-> self_, locals |-> locals, ret |-> Raise("ValueError"), next |-> -1]
           ELSE [self |-> WithChi0(self_), locals |-> locals,
                 ret |-> Return(None), next |-> 406]
      [] line = 406 ->
           IF self_.chit_withdelay # None
           THEN [self |-> self_, locals |-> locals, ret |-> Return(None), next |-> 410]
           ELSE IF self_.signalfilt_td = None
           THEN [self |-> self_, locals |-> locals, ret |-> Raise("TypeError"), next |-> -1]
           ELSE [self |-> [self_ EXCEPT !.chit_withdelay =
                             Tab([i \in DOMAIN self_.signalfilt_td |->
                                 RMul(RSq(self_.signalfilt_td[i]), self_.norm)])],
                 locals |-> locals, ret |-> Return(None), next |-> 410]
      [] line = 410 ->
           IF self_.chi_withdelay # None
           THEN [self |-> self_, locals |-> locals, ret |-> Return(None), next |-> 414]
           ELSE IF self_.chi0 = None \/ self_.chit_withdelay = None
           THEN [self |-> self_, locals |-> locals, ret |-> Raise("TypeError"), next |-> -1]
           ELSE [self |-> [self_ EXCEPT !.chi_withdelay =
                             roll(Tab([i \in DOMAIN self_.chit_withdelay |->
                                      RSub(self_.chi0, self_.chit_withdelay[i])]),
                                  self_.nbins \div 2)],
                 locals |-> locals, ret |-> Return(None), next |-> 414]
      [] line = 414 ->
           IF self_.amps_withdelay # None
           THEN [self |-> self_, locals |-> locals, ret |-> Return(None), next |-> 418]
           ELSE IF self_.signalfilt_td = None
           THEN [self |-> self_, locals |-> locals, ret |-> Raise("AxisError"), next |-> -1]
           ELSE [self |-> [self_ EXCEPT !.amps_withdelay =
                             roll(self_.signalfilt_td, self_.nbins \div 2)],
                 locals |-> locals, ret |-> Return(None), next |-> 418]
      [] line = 418 ->
           [self |-> self_,
            locals |-> [locals EXCEPT !.constraint_mask =
                          _get_pulse_direction_constraint_mask(self_.amps_withdelay, 0).value],
            ret |-> Return(None), next |-> 422]
      [] line = 422 ->
           IF self_.chi_withdelay = None
           THEN [self |-> self_, locals |-> locals, ret |-> Raise("TypeError"), next |-> -1]
           ELSE [self |-> self_,
                 locals |-> [locals EXCEPT !.bestind =
                               _argmin_chi2(self_.chi_withdelay, None, FALSE,
                                            locals.constraint_mask).value],
                 ret |-> Return(None), next |-> 425]
      [] line = 425 ->
           IF RIsNaN(locals.bestind)
           THEN [self |-> self_, locals |-> locals,
                 ret |-> Return(<<Zero, Zero, self_.chi0>>), next |-> -1]
           ELSE IF self_.amps_withdelay = None \/ self_.chi_withdelay = None
           THEN [self |-> self_, locals |-> locals, ret |-> Raise("TypeError"), next |-> -1]
           ELSE [self |-> self_, locals |-> locals,
                 ret |-> Return(<<self_.amps_withdelay[Idx(locals.bestind)],
                                  DelayOf(locals.bestind, self_.nbins, self_.fs),
                                  self_.chi_withdelay[Idx(locals.bestind)]>>),
                 next |-> -1]

\* a signal of another length than the template and the psd
Short == RArr(<<1, 2>>)

UpdateArgs(t) == {roll(t, 2), Mismatch, Short}

InProgress(line) == line \notin {0, -1}

InitShared ==
    /\ template \in Templates
    /\ coupling \in Couplings
    /\ signal \in {roll(template, 1), Mismatch}
    /\ \E p \in Psds, warm \in BOOLEAN :
          \E c \in {OptimumFilter_init(signal, template, p, Fs, coupling, FALSE)} :
             /\ inputpsd = c.caller
             /\ self = IF warm THEN ofamp_withdelay_arrays(c.self) ELSE c.self
             /\ \E x2 \in UpdateArgs(template) \ {signal} :
                   search = [x2 |-> x2, fresh |-> c.self, before |-> None,
                             writer |-> 0, reader |-> 0, raised |-> "none",
                             locals |-> [constraint_mask |-> None, bestind |-> None],
                             overlap |-> FALSE, after |-> FALSE]
    /\ pc = "shared"
    /\ ret = NoCall

\* the caller of update_signal(x2) executes its next statement
StepUpdateSignal ==
    /\ pc = "shared"
    /\ search.writer # -1
    /\ \E r \in {update_signal_line(self, search.x2,
                                     IF search.writer = 0 THEN 238 ELSE search.writer)} :
          /\ self' = r.self
          /\ search' = [search EXCEPT
                          !.writer = r.next,
                          !.raised = r.ret.raised,
                          !.before = IF search.writer = 0 THEN self ELSE @,
                          !.overlap = @ \/ InProgress(search.reader)]
    /\ UNCHANGED <<signal, template, inputpsd, coupling, pc, ret>>

\* the caller of ofamp_withdelay() executes its next statement
StepOfampWithdelay ==
    /\ pc = "shared"
    /\ search.reader # -1
    /\ \E r \in {ofamp_withdelay_line(self, search.locals,
                                       IF search.reader = 0 THEN 398 ELSE search.reader)} :
          /\ self' = r.self
          /\ search' = [search EXCEPT
                          !.reader = r.next,
                          !.locals = r.locals,
                          !.after = IF search.reader = 0 THEN search.writer = -1 ELSE @,
                          !.overlap = @ \/ InProgress(search.writer)]
          /\ ret' = IF r.next = -1
                    THEN MethodCall("ofamp_withdelay", None, r.ret, None, r.locals)
                    ELSE ret
    /\ UNCHANGED <<signal, template, inputpsd, coupling, pc>>

NextShared == StepUpdateSignal \/ StepOfampWithdelay

SpecShared == InitShared /\ [][NextShared]_vars

ReaderOutcome == [raised |-> ret.raised, value |-> ret.value]

\* what ofamp_withdelay returns on an instance that holds x1, and on one that
\* holds x2 after a whole update_signal(x2)
ResultForX1 == ofamp_withdelay(search.fresh, None, FALSE, 0).ret

ResultForX2 == ofamp_withdelay(update_signal(search.fresh, search.x2).self, None, FALSE, 0).ret

Torn ==
    /\ pc = "shared"
    /\ search.reader = -1
    /\ search.raised = "none"
    /\ ReaderOutcome # ResultForX1
    /\ NBinsOf(search.x2) = self.nbins => ReaderOutcome # ResultForX2

C28_UpdateSignalAtomicOnFailure ==
    (pc = "shared" /\ search.raised # "none") =>
        /\ search.reader = 0 => self = search.before
        /\ (search.reader = -1 /\ search.after) => ReaderOutcome = ResultForX1

\* ---------------------------------------------------------------------------
\* The index of the first pulse in the pile-up fits (lines 431, 486, 495-498,
\* 958-961).  t1, t1*fs and t1*fs+nbins are numpy float64 values: a float64
\* is [neg, bits, exp], the 53 bits of its significand with the least
\* significant bit first and the weight 2^exp of that bit; bits = <<>> is zero.
\* ---------------------------------------------------------------------------

RECURSIVE BitsOf(_)
BitsOf(n) == IF n = 0 THEN <<>> ELSE <<n % 2>> \o BitsOf(n \div 2)

RECURSIVE NatOf(_)
NatOf(s) == IF s = <<>> THEN 0 ELSE s[1] + 2 * NatOf(Tail(s))

\* a long significand is worked on ten bits at a time
Limbs(s) ==
    [j \in 1 .. (Len(s) + 9) \div 10 |->
        NatOf(SubSeq(s, 10 * j - 9, IF 10 * j < Len(s) THEN 10 * j ELSE Len(s)))]

Bits(limbs) ==
    [i \in 1 .. 10 * Len(limbs) |-> (limbs[(i - 1) \div 10 + 1] \div 2 ^ ((i - 1) % 10)) % 2]

Significant(s) ==
    SubSeq(s, 1, IF \E i \in 1 .. Len(s) : s[i] = 1
                 THEN CHOOSE i \in 1 .. Len(s) :
                         s[i] = 1 /\ \A j \in i + 1 .. Len(s) : s[j] = 0
                 ELSE 0)

Incremented(s) ==
    IF \A i \in 1 .. Len(s) : s[i] = 1
    THEN [i \in 1 .. Len(s) + 1 |-> IF i = Len(s) + 1 THEN 1 ELSE 0]
    ELSE Let([z \in {CHOOSE i \in 1 .. Len(s) :
                        s[i] = 0 /\ \A j \in 1 .. i - 1 : s[j] = 1} |->
         [i \in 1 .. Len(s) |-> IF i < z THEN 0 ELSE IF i = z THEN 1 ELSE s[i]]])

\* the float64 nearest to (-1)^neg * bits * 2^exp, ties to the even significand
float64(neg, bits, exp) ==
    Let([s \in {Significant(bits)} |->
    Let([d \in {Len(s) - 53} |->
    IF s = <<>> THEN [neg |-> FALSE, bits |-> <<>>, exp |-> 0]
    ELSE IF d <= 0
    THEN [neg |-> neg, bits |-> [i \in 1 .. -d |-> 0] \o s, exp |-> exp + d]
    ELSE
    Let([r \in {IF s[d] = 1 /\ (s[d + 1] = 1 \/ \E i \in 1 .. d - 1 : s[i] = 1)
                THEN Incremented(SubSeq(s, d + 1, Len(s)))
                ELSE SubSeq(s, d + 1, Len(s))} |->
    IF Len(r) > 53
    THEN [neg |-> neg, bits |-> Tail(r), exp |-> exp + d + 1]
    ELSE [neg |-> neg, bits |-> r, exp |-> exp + d]])])])

\* the limbs of r/d after the binary point, and below them one limb that tells
\* whether anything is left
RECURSIVE QuotientLimbs(_, _, _)
QuotientLimbs(r, d, count) ==
    IF count = 0 THEN <<IF r = 0 THEN 0 ELSE 1>>
    ELSE QuotientLimbs((1024 * r) % d, d, count - 1) \o <<(1024 * r) \div d>>

\* n / d for an integer n and a float64 d that holds an integer below 2^20
true_divide(n, d) ==
    float64(n < 0, Bits(QuotientLimbs(Abs(n) % d, d, 9)) \o BitsOf(Abs(n) \div d), -100)

RECURSIVE TimesLimbs(_, _, _)
TimesLimbs(l, n, carry) ==
    IF l = <<>> THEN <<carry % 1024, carry \div 1024>>
    ELSE <<(l[1] * n + carry) % 1024>>
         \o TimesLimbs(Tail(l), n, (l[1] * n + carry) \div 1024)

\* x * n for a float64 x and a float64 n that holds an integer below 2^20
multiply(x, n) == float64(x.neg, Bits(TimesLimbs(Limbs(x.bits), n, 0)), x.exp)

RECURSIVE MinusLimbs(_, _, _)
MinusLimbs(a, b, borrow) ==
    IF a = <<>> THEN <<>>
    ELSE Let([t \in {a[1] - (IF b = <<>> THEN 0 ELSE b[1]) - borrow} |->
         <<t % 1024>> \o MinusLimbs(Tail(a), IF b = <<>> THEN <<>> ELSE Tail(b),
                                    IF t < 0 THEN 1 ELSE 0)])

\* x + n for a negative float64 x and an integer n above its magnitude
add(x, n) ==
    float64(FALSE,
            Bits(MinusLimbs(Limbs([i \in 1 .. -x.exp |-> 0] \o BitsOf(n)),
                            Limbs(x.bits), 0)),
            x.exp)

\* int(x): the integer part of a float64 below 2^53, towards zero
int(x) ==
    (IF x.neg THEN -1 ELSE 1)
    * NatOf(SubSeq(x.bits, IF x.exp < 0 THEN 1 - x.exp ELSE 1, Len(x.bits)))

\* t0 of ofamp_withdelay (line 431)
t0_float64(bestind, nbins, fs) == true_divide(bestind - nbins \div 2, fs)

\* the pile-up time table (lines 485-486)
times_float64(nbins, fs) == Tab([i \in 0 .. nbins - 1 |-> true_divide(i - nbins \div 2, fs)])

\* t1ind of ofamp_pileup_iterative and ofamp_pileup (lines 495-498, 958-961)
t1ind_float64(t1, fs, nbins) ==
    IF t1.neg
    THEN int(add(multiply(t1, fs), nbins))
    ELSE int(multiply(t1, fs))

IndexBins == {4, 5, 64}

IndexRates == {2, 49, 625000}

InitIndex ==
    /\ signal = None /\ template = None /\ inputpsd = None /\ coupling = "AC"
    /\ self = None
    /\ ret = NoCall
    /\ pc = "index"
    /\ \E nbins \in IndexBins, fs \in IndexRates :
          search = [nbins |-> nbins, fs |-> fs, bestind |-> None, t1 |-> None,
                    times |-> None, t1ind |-> None]

\* ofamp_withdelay selects a bin and reports its time
SelectBin ==
    /\ pc = "index"
    /\ \E bestind \in 0 .. search.nbins - 1 :
          search' = [search EXCEPT
                       !.bestind = bestind,
                       !.t1 = t0_float64(bestind, search.nbins, search.fs)]
    /\ pc' = "selected"
    /\ UNCHANGED <<signal, template, inputpsd, coupling, self, ret>>

\* the pile-up fit builds its time table and locates the first pulse
LocateFirstPulse ==
    /\ pc = "selected"
    /\ search' = [search EXCEPT
                    !.times = times_float64(search.nbins, search.fs),
                    !.t1ind = t1ind_float64(search.t1, search.fs, search.nbins)]
    /\ pc' = "located"
    /\ UNCHANGED <<signal, template, inputpsd, coupling, self, ret>>

NextIndex == SelectBin \/ LocateFirstPulse

SpecIndex == InitIndex /\ [][NextIndex]_vars

\* C29: the index that the pile-up fits compute from the time of a bin selected
\* by ofamp_withdelay lies in [0, nbins) and is (b - nbins//2) mod nbins, and the
\* pile-up time table gives bin i the time (i - nbins//2)/fs that ofamp_withdelay
\* reports for it.
C29_IndexOfSelectedBin ==
    pc = "located" =>
        /\ search.t1ind \in 0 .. search.nbins - 1
        /\ search.t1ind = (search.bestind - search.nbins \div 2) % search.nbins
        /\ search.times[search.bestind] = search.t1

\* ---------------------------------------------------------------------------
\* IterCut (src/qetpy/cut/_cut.py): the traces that pass are kept as the index
\* array _cutinds; an index array and a boolean mask over it are sequences.
\* ---------------------------------------------------------------------------

\* the positions of a mask used as trace indices
Renumbered(a, cout) == flatnonzero(Tab([i \in 0 .. Len(cout) - 1 |-> cout[i + 1]]))

\* a[cout] for a boolean mask cout of the length of a
Take(a, cout) ==
    Let([kept \in {SelectSeq([p \in 1 .. Len(a) |-> p], LAMBDA p : cout[p])} |->
    [j \in 1 .. Len(kept) |-> a[kept[j]]]])

IterCut_init(traces, external_cut) ==
    IF external_cut # None /\ Len(external_cut) # Len(traces)
    THEN [self |-> None, ret |-> Raise("ValueError")]
    ELSE [self |-> [traces |-> traces, _ntraces |-> Len(traces),
                    _cutinds |-> IF external_cut = None
                                 THEN arange(0, Len(traces))
                                 ELSE Take(arange(0, Len(traces)), external_cut)],
          ret |-> Return(None)]

\* the property cmask of an instance whose indices are those of traces
cmask(self_) ==
    [i \in 1 .. self_._ntraces |->
        \E j \in 1 .. Len(self_._cutinds) : self_._cutinds[j] = i - 1]

\* the bounds of lines 722-755: percentiles of the sorted values, overridden
\* by explicit values
Bounds(vals, cut_pars) ==
    Let([sorted \in {SortSeq(vals, LAMBDA a, b : a < b)} |->
    Let([n \in {Len(vals)} |->
    Let([iu \in {IF cut_pars.percent_upper = None THEN None
                 ELSE Some((n * cut_pars.percent_upper[1]) \div 100)} |->
    Let([il \in {IF cut_pars.percent_lower = None THEN None
                 ELSE Some((n * cut_pars.percent_lower[1]) \div 100)} |->
    IF (iu # None /\ iu[1] >= n) \/ (il # None /\ il[1] >= n) THEN Raise("IndexError")
    ELSE Return([lower_bound |-> IF cut_pars.val_lower # None THEN cut_pars.val_lower
                                 ELSE IF il # None THEN Some(sorted[n - il[1]])
                                 ELSE None,
                 upper_bound |-> IF cut_pars.val_upper # None THEN cut_pars.val_upper
                                 ELSE IF iu # None THEN Some(sorted[iu[1] + 1])
                                 ELSE None])])])])])

\* _run_algo (lines 676-779); outlier is the mask that the outlier algorithm
\* returns for vals when cut_pars asks for a sigma cut
_run_algo(self_, vals, cut_pars, outlier) ==
    IF cut_pars.sigma
    THEN [self |-> [self_ EXCEPT !._cutinds = Take(self_._cutinds, outlier)],
          ret |-> Return(None)]
    ELSE
    Let([b \in {Bounds(vals, cut_pars)} |->
    IF b.raised # "none" THEN [self |-> self_, ret |-> b]
    ELSE IF b.value.lower_bound = None /\ b.value.upper_bound = None
    THEN [self |-> self_, ret |-> Raise("ValueError")]
    ELSE [self |-> [self_ EXCEPT !._cutinds =
                      Take(self_._cutinds,
                           [p \in 1 .. Len(vals) |->
                               /\ b.value.lower_bound # None => vals[p] > b.value.lower_bound[1]
                               /\ b.value.upper_bound # None => vals[p] < b.value.upper_bound[1]])],
          ret |-> Return(None)]])

\* max - min of every passing trace (lines 1050, 1058; no low-pass filter)
MinMax(self_) ==
    [p \in 1 .. Len(self_._cutinds) |->
        Let([trace \in {self_.traces[self_._cutinds[p] + 1]} |->
        (CHOOSE x \in {trace[k] : k \in DOMAIN trace} :
            \A k \in DOMAIN trace : trace[k] <= x)
        - (CHOOSE x \in {trace[k] : k \in DOMAIN trace} :
            \A k \in DOMAIN trace : trace[k] >= x)])]

\* a cut method: the values of the passing traces, _run_algo, the new cmask
\* (lines 1050-1081 and the same lines of the five other cuts)
Cut(self_, vals, cut_pars, outlier) ==
    Let([r \in {_run_algo(self_, vals, cut_pars, outlier)} |->
    IF r.ret.raised # "none" THEN r
    ELSE [self |-> r.self, ret |-> Return(cmask(r.self))]])

update_cutinds(self_, cutinds, cut) ==
    IF cutinds # None
    THEN [self |-> [self_ EXCEPT !._cutinds = cutinds], ret |-> Return(None)]
    ELSE IF cut # None
    THEN IF Len(self_._cutinds) # Len(cut)
         THEN [self |-> self_, ret |-> Raise("ValueError")]
         ELSE [self |-> [self_ EXCEPT !._cutinds = Take(self_._cutinds, cut)],
               ret |-> Return(None)]
    ELSE [self |-> self_, ret |-> Raise("ValueError")]

modify_traces(self_, traces) ==
    IF Len(traces) # self_._ntraces
    THEN [self |-> self_, ret |-> Raise("ValueError")]
    ELSE [self |-> [self_ EXCEPT !.traces = traces], ret |-> Return(None)]

TraceArgs == {<<<<0, 1>>, <<0, 3>>, <<2, 2>>>>, <<<<0, 2>>, <<1, 1>>, <<0, 3>>, <<3, 2>>>>}

Masks(n) == [1 .. n -> BOOLEAN]

NoPars == [sigma |-> FALSE, percent_lower |-> None, percent_upper |-> None, val_lower |-> None, val_upper |-> None]

CutPars ==
    {NoPars, [NoPars EXCEPT !.sigma = TRUE],
     [NoPars EXCEPT !.val_lower = Some(0)], [NoPars EXCEPT !.val_upper = Some(3)],
     [NoPars EXCEPT !.val_lower = Some(0), !.val_upper = Some(2)],
     [NoPars EXCEPT !.percent_upper = Some(50)], [NoPars EXCEPT !.percent_lower = Some(50)],
     [NoPars EXCEPT !.percent_upper = Some(100)]}

CutNames == {"ofampscut", "baselinecut", "minmaxcut", "slopecut", "ofchi2cut", "arbitrarycut"}

\* index arrays in range that a caller can hand to update_cutinds
CutindsArgs(n) ==
    {Take(arange(0, n), m) : m \in Masks(n)} \cup {<<n - 1, 0>>, <<0, 0>>}

InitCut ==
    /\ signal = None /\ template = None /\ inputpsd = None /\ coupling = "AC"
    /\ self = None
    /\ ret = NoCall
    /\ pc = "cut"
    /\ \E traces \in TraceArgs : search = [traces |-> traces, before |-> None]

ConstructIterCut ==
    /\ pc = "cut"
    /\ \E external_cut \in {None, <<TRUE>>} \cup Masks(Len(search.traces)) :
       \E c \in {IterCut_init(search.traces, external_cut)} :
          /\ self' = c.self
          /\ ret' = MethodCall("IterCut", [external_cut |-> external_cut], c.ret, None, None)
          /\ pc' = IF c.ret.raised = "none" THEN "cut ready" ELSE "cut failed"
    /\ UNCHANGED <<signal, template, inputpsd, coupling, search>>

\* one of the six cuts; the values of the passing traces come from the traces
\* (minmaxcut) or from the fit or function that the cut applies to them
CallCut ==
    /\ pc = "cut ready"
    /\ \E name \in CutNames, cut_pars \in CutPars :
       \E vals \in IF name = "minmaxcut" THEN {MinMax(self)}
                   ELSE [1 .. Len(self._cutinds) -> {1, 3}] :
       \E outlier \in IF cut_pars.sigma THEN Masks(Len(vals)) ELSE {None} :
       \E c \in {Cut(self, vals, cut_pars, outlier)} :
          /\ self' = c.self
          /\ ret' = MethodCall(name, [cut_pars |-> cut_pars], c.ret, None, None)
    /\ search' = [search EXCEPT !.before = cmask(self)]
    /\ UNCHANGED <<signal, template, inputpsd, coupling, pc>>

CallUpdateCutinds ==
    /\ pc = "cut ready"
    /\ \E cutinds \in {None} \cup CutindsArgs(self._ntraces) :
       \E cut \in {None, <<>>} \cup Masks(Len(self._cutinds)) :
       \E c \in {update_cutinds(self, cutinds, cut)} :
          /\ self' = c.self
          /\ ret' = MethodCall("update_cutinds", [cutinds |-> cutinds, cut |-> cut],
                               c.ret, None, None)
    /\ search' = [search EXCEPT !.before = cmask(self)]
    /\ UNCHANGED <<signal, template, inputpsd, coupling, pc>>

CallModifyTraces ==
    /\ pc = "cut ready"
    /\ \E traces \in TraceArgs :
       \E c \in {modify_traces(self, traces)} :
          /\ self' = c.self
          /\ ret' = MethodCall("modify_traces", None, c.ret, None, None)
    /\ search' = [search EXCEPT !.before = cmask(self)]
    /\ UNCHANGED <<signal, template, inputpsd, coupling, pc>>

NextCut == ConstructIterCut \/ CallCut \/ CallUpdateCutinds \/ CallModifyTraces

SpecCut == InitCut /\ [][NextCut]_vars

Subset(a, b) == \A i \in DOMAIN a : a[i] => b[i]

\* C30: the cmask of an IterCut has one entry per input trace and is True
\* exactly at the indices in cutinds; the cmask that a cut returns is a subset
\* of the cmask before the cut, and so is the cmask after every other call
\* except update_cutinds(cutinds=...).
C30_CmaskOnlyShrinks ==
    (pc = "cut ready") =>
        /\ Len(cmask(self)) = Len(search.traces)
        /\ \A i \in 1 .. Len(search.traces) :
              cmask(self)[i] <=> i - 1 \in {self._cutinds[j] : j \in DOMAIN self._cutinds}
        /\ (ret.op \in CutNames /\ ret.raised = "none") =>
              /\ ret.value = cmask(self)
              /\ Subset(ret.value, search.before)
        /\ (ret.op = "IterCut" /\ ret.args.external_cut # None) =>
              Subset(cmask(self), ret.args.external_cut)
        /\ (ret.op # "IterCut" /\ ~(ret.op = "update_cutinds" /\ ret.args.cutinds # None)) =>
              Subset(cmask(self), search.before)

C30_Witness ==
    /\ pc = "cut ready"
    /\ ret.op = "minmaxcut"
    /\ ret.raised = "none"
    /\ ret.value # search.before
    /\ \E i \in DOMAIN ret.value : ret.value[i]
    /\ \E i \in DOMAIN ret.value : ~search.before[i]

====
